---- MODULE Spec2Model ----
(***************************************************************************)
(* A model of pot-diff: the differ (Diff::between_values), the applier     *)
(* (Diff::apply_to_value) and the binary codec (binary::encode/decode).    *)
(*                                                                         *)
(* A Value is a record [k |-> kind, v |-> payload]:                        *)
(*   None, Unit        payload 0                                           *)
(*   Bool              payload a BOOLEAN                                   *)
(*   Integer           payload an integer                                  *)
(*   Float             payload the little-endian bytes of an f32 or f64    *)
(*   Bytes, String     payload a sequence of bytes (0..255)                *)
(*   Sequence          payload a sequence of Values                        *)
(*   Mappings          payload a sequence of pairs <<key, value>>          *)
(* An Estimated is modelled by its Value: the cached estimated_bytes of a  *)
(* node is a function of the value below it (estimated_bytes).             *)
(* pot::format::Integer is compared by the number it holds and             *)
(* pot::format::Float as f32/f64 are (IEEE 754): the types come from the   *)
(* pot crate, and so do the atom layout and the ordered-varint layout of   *)
(* the wire format.                                                        *)
(* An Option<usize> is <<>> (None) or <<i>> (Some(i)).                      *)
(***************************************************************************)
EXTENDS Integers, Sequences, FiniteSets, TLC

VARIABLES
    original,   \* the value a diff is taken from / applied to
    updated,    \* the value a diff is taken to
    stats,      \* Counter.estimated_bytes of the root measurement
    logged,     \* every log_change call of the emitting run, in order
    diff,       \* the Diff (its changes), or the panic that ended between_values
    bytes,      \* the buffer written by encode / handed to decode
    decoded,    \* the result of decode
    applied,    \* the result of apply_to_value
    pc,         \* the step the pipeline is at
    diffable,   \* a Diffable: active, dirty, latest
    replica,    \* the value a receiver of the diffs holds
    returned,   \* what the diff() call just made returned
    last,       \* the last operation on the Diffable
    input,      \* the string or the bytes handed to the text renderer
    rendering,  \* the text written by a Display implementation
    parsed,     \* the result of decode_string / decode_bytes
    compared,   \* the result of `estimated == value`
    value_read  \* the result of read_value

pipeline_vars == <<original, updated, stats, logged, diff, bytes, decoded, applied, pc>>
diffable_vars == <<diffable, replica, returned, last>>
text_vars == <<input, rendering, parsed>>
compare_vars == <<compared, value_read>>
vars == <<pipeline_vars, diffable_vars, text_vars, compare_vars>>

RECURSIVE estimated_bytes(_)
RECURSIVE EstimatedEq(_, _)
RECURSIVE create_diff(_, _, _, _, _)
RECURSIVE SequenceLoop(_, _, _, _, _)
RECURSIVE MapLoop(_, _, _, _, _)
RECURSIVE SequenceInsertRun(_, _, _, _, _)
RECURSIVE MapInsertRun(_, _, _, _, _)
RECURSIVE SumSeq(_)
RECURSIVE apply_changes_to_sequence(_, _)
RECURSIVE apply_changes_to_mappings(_, _)
RECURSIVE write_value(_)
RECURSIVE write_values(_)
RECURSIVE write_pairs(_)
RECURSIVE read_value(_)
RECURSIVE read_values(_, _, _)
RECURSIVE read_pairs(_, _, _)
RECURSIVE encode_changes(_)
RECURSIVE read_changes(_, _, _)
RECURSIVE read_fields(_, _, _)
RECURSIVE StripTrailingExits(_)

----------------------------------------------------------------------------
(* Values                                                                  *)

ValueNone == [k |-> "None", v |-> 0]
ValueUnit == [k |-> "Unit", v |-> 0]
ValueBool(b) == [k |-> "Bool", v |-> b]
ValueInteger(i) == [k |-> "Integer", v |-> i]
ValueFloat(f) == [k |-> "Float", v |-> f]
ValueBytes(bs) == [k |-> "Bytes", v |-> bs]
ValueString(s) == [k |-> "String", v |-> s]
ValueSequence(vs) == [k |-> "Sequence", v |-> vs]
ValueMappings(es) == [k |-> "Mappings", v |-> es]

None == <<>>
\* The variant that carries no index.
NoIndex(i) == <<>>
Some(i) == <<i>>
unwrap_or(option, default) == IF option = None THEN default ELSE option[1]

SumSeq(s) == IF s = <<>> THEN 0 ELSE Head(s) + SumSeq(Tail(s))

Min(a, b) == IF a < b THEN a ELSE b

\* The least element of a set of naturals, or -1: what find_map returns
\* over an enumerated iterator (the first index that matches).
FirstIndex(S) == IF S = {} THEN -1 ELSE CHOOSE i \in S : \A j \in S : i <= j

----------------------------------------------------------------------------
(* Size estimates                                                          *)

U8_MAX_AS_USIZE == 255
U16_MAX_AS_USIZE == 65535

\* TLC's integers are 32 bits wide: every value above u16::MAX is in the
\* 4-byte class here (the 8-byte class of a 64-bit usize is out of range).
estimate_usize_bytes(value) ==
    IF value <= U8_MAX_AS_USIZE THEN 1
    ELSE IF value <= U16_MAX_AS_USIZE THEN 2
    ELSE 4

\* as_i8 or as_u8 succeeds, else as_i16 or as_u16, else the 4-byte class
\* (wider integers are out of TLC's range).
integer_size(integer) ==
    IF integer >= -128 /\ integer <= U8_MAX_AS_USIZE THEN 1
    ELSE IF integer >= -32768 /\ integer <= U16_MAX_AS_USIZE THEN 2
    ELSE 4

\* float.as_f32().is_ok(): an f32 is one; an f64 is one when the cast to
\* f32 and back gives the same number: a zero, an infinity, or a number
\* whose low 29 mantissa bits are clear and whose exponent an f32 holds
\* (f32 subnormals are left out).
as_f32_is_ok(float) ==
    \/ Len(float) # 8
    \/ LET exponent == (float[8] % 128) * 16 + float[7] \div 16
           mantissa_is_zero == float[7] % 16 = 0 /\ \A i \in 1..6 : float[i] = 0
       IN  \/ exponent = 0 /\ mantissa_is_zero
           \/ exponent = 2047 /\ mantissa_is_zero
           \/ /\ exponent >= 897 /\ exponent <= 1150
              /\ float[1] = 0 /\ float[2] = 0 /\ float[3] = 0 /\ float[4] % 32 = 0

\* Estimated::from(Value): commands + data_bytes of the node.
estimated_bytes(value) ==
    IF value.k \in {"None", "Unit"} THEN 1 + 0
    ELSE IF value.k = "Bool" THEN 1 + 1
    ELSE IF value.k = "Integer" THEN 1 + integer_size(value.v)
    ELSE IF value.k = "Float" THEN 1 + (IF as_f32_is_ok(value.v) THEN 4 ELSE 8)
    ELSE IF value.k \in {"Bytes", "String"} THEN 1 + Len(value.v)
    ELSE IF value.k = "Sequence"
    THEN (Len(value.v) + 1)
         + SumSeq([i \in 1..Len(value.v) |-> estimated_bytes(value.v[i])])
    ELSE (Len(value.v) * 2 + 1)
         + SumSeq([i \in 1..Len(value.v) |->
                      estimated_bytes(value.v[i][1]) + estimated_bytes(value.v[i][2])])

----------------------------------------------------------------------------
(* Estimated == Value                                                      *)

\* f32::is_nan / f64::is_nan on the little-endian bytes: the exponent is
\* all ones and the mantissa is not zero.
is_nan(float) ==
    IF Len(float) = 4
    THEN /\ float[4] % 128 = 127 /\ float[3] >= 128
         /\ (float[3] % 128 # 0 \/ float[2] # 0 \/ float[1] # 0)
    ELSE /\ float[8] % 128 = 127 /\ float[7] >= 240
         /\ (float[7] % 16 # 0 \/ \E i \in 1..6 : float[i] # 0)

\* +0.0 or -0.0
is_zero(float) ==
    /\ float[Len(float)] % 128 = 0
    /\ \A i \in 1..(Len(float) - 1) : float[i] = 0

\* `a == b` on two floats of one width: a NaN equals nothing, itself
\* included, and the two zeros are equal.
FloatEq(a, b) ==
    /\ ~is_nan(a)
    /\ ~is_nan(b)
    /\ (a = b \/ (is_zero(a) /\ is_zero(b)))

\* VecDeque<Estimated> == Vec<Value>: same length and element-wise equal.
EstimatedSeqEq(a, b) ==
    Len(a) = Len(b) /\ \A i \in 1..Len(a) : EstimatedEq(a[i], b[i])

\* The Mappings arm zips the two pair lists: it stops at the shorter one.
EstimatedEq(a, b) ==
    IF a.k # b.k THEN FALSE
    ELSE IF a.k \in {"None", "Unit"} THEN TRUE
    ELSE IF a.k \in {"Bool", "Integer", "Bytes", "String"} THEN a.v = b.v
    ELSE IF a.k = "Float" THEN FloatEq(a.v, b.v)
    ELSE IF a.k = "Sequence" THEN EstimatedSeqEq(a.v, b.v)
    ELSE \A i \in 1..Min(Len(a.v), Len(b.v)) :
            EstimatedEq(a.v[i][1], b.v[i][1]) /\ EstimatedEq(a.v[i][2], b.v[i][2])

----------------------------------------------------------------------------
(* Changes                                                                 *)

Exit == [change |-> "Exit"]
EnterSequence(index, key) == [change |-> "EnterSequence", index |-> index, key |-> key]
EnterMap(index, key) == [change |-> "EnterMap", index |-> index, key |-> key]
Replace(index, value) == [change |-> "Replace", index |-> index, value |-> value]
ReplaceKey(index, key) == [change |-> "ReplaceKey", index |-> index, key |-> key]
ReplaceMapping(index, key, value) ==
    [change |-> "ReplaceMapping", index |-> index, key |-> key, value |-> value]
Remove(index, length) == [change |-> "Remove", index |-> index, length |-> length]
Truncate(length) == [change |-> "Truncate", length |-> length]
Insert(index, value) == [change |-> "Insert", index |-> index, value |-> value]
InsertMapping(index, key, value) ==
    [change |-> "InsertMapping", index |-> index, key |-> key, value |-> value]

\* A change closure whose body is unreachable!(): evaluating it panics.
Unreachable == [change |-> "unreachable!"]
\* pop_front().expect("just iterated") on an empty queue.
ExpectFailed == [change |-> "expect"]

----------------------------------------------------------------------------
(* The Differ trait and its two sinks                                      *)

\* One call of Differ::log_change, as the routine makes it: the estimate
\* and the (lazy) change.
log_change(log, bytes_estimate, change) ==
    Append(log, [estimated_bytes |-> bytes_estimate, change |-> change])

\* The variant that adds the estimates alone.
RECURSIVE CounterOfEstimates(_)
CounterOfEstimates(log) ==
    IF log = <<>> THEN 0
    ELSE Head(log).estimated_bytes + CounterOfEstimates(Tail(log))

\* impl Differ for Counter: estimated_bytes += 1 + estimated_bytes.
RECURSIVE Counter(_)
Counter(log) ==
    IF log = <<>> THEN 0
    ELSE (1 + Head(log).estimated_bytes) + Counter(Tail(log))

\* impl Differ for Diff: changes.push(change()).
Collect(log) == [i \in 1..Len(log) |-> log[i].change]

----------------------------------------------------------------------------
(* CowDeque                                                                *)

CowDequeOwned(deque) == [owned |-> TRUE, deque |-> deque, index |-> 0]
CowDequeBorrowed(deque) == [owned |-> FALSE, deque |-> deque, index |-> 0]

\* pop_front: [some, item, cow, queue]; cow says whether the item is
\* Cow::Owned or Cow::Borrowed.
pop_front(queue) ==
    IF queue.owned
    THEN IF queue.deque = <<>>
         THEN [some |-> FALSE, queue |-> queue]
         ELSE [some |-> TRUE, item |-> Head(queue.deque), cow |-> "Owned",
               queue |-> [queue EXCEPT !.deque = Tail(queue.deque)]]
    ELSE IF queue.index < Len(queue.deque)
         THEN [some |-> TRUE, item |-> queue.deque[queue.index + 1], cow |-> "Borrowed",
               queue |-> [queue EXCEPT !.index = queue.index + 1]]
         ELSE [some |-> FALSE, queue |-> queue]

\* The variant that iterates the borrowed deque from its first element.
iter_unskipped(queue) == queue.deque

\* iter: the elements not yet popped.
iter(queue) ==
    IF queue.owned THEN queue.deque
    ELSE SubSeq(queue.deque, queue.index + 1, Len(queue.deque))

CowDequeOf(cow, deque) ==
    IF cow = "Owned" THEN CowDequeOwned(deque) ELSE CowDequeBorrowed(deque)

----------------------------------------------------------------------------
(* Diff::create_diff, create_sequence_diff, create_map_diff                *)

\* The variant that truncates also when every original value was consumed.
ExtraValuesOrNone(original_index, original_values) ==
    original_index <= Len(original_values)

\* `if original_index < original_values.len()`: extra values, need to
\* truncate.
ExtraValues(original_index, original_values) ==
    original_index < Len(original_values)

\* The offsets k >= 0 with updated == original_values[original_index + k].
SequenceMatchesInOriginal(original_values, original_index, item) ==
    {k \in 0..(Len(original_values) - original_index - 1) :
        EstimatedEq(item, original_values[original_index + 1 + k])}

\* The offsets k >= 0 with (remaining updated)[k] == original.
SequenceMatchesInUpdated(updated_values, orig) ==
    {k \in 0..(Len(iter(updated_values)) - 1) :
        EstimatedEq(iter(updated_values)[k + 1], orig)}

\* for _ in 0..matching_index + 1 { log Insert; insert_index += 1;
\*                                  updated = pop_front().expect(..) }
\* Returns the queue, the last popped item, insert_index and the log.
SequenceInsertRun(updated_values, item, count, insert_index, log) ==
    IF count = 0
    THEN [queue |-> updated_values, item |-> item,
          insert_index |-> insert_index, log |-> log]
    ELSE LET logged1 == log_change(log,
                            estimated_bytes(item) + estimate_usize_bytes(insert_index),
                            Insert(insert_index, item))
             popped == pop_front(updated_values)
         IN  IF popped.some
             THEN SequenceInsertRun(popped.queue, popped.item, count - 1,
                                    insert_index + 1, logged1)
             ELSE [queue |-> updated_values, item |-> item,
                   insert_index |-> insert_index + 1,
                   log |-> log_change(logged1, 0, ExpectFailed)]

\* One iteration of `while let Some(updated) = updated_values.pop_front()`
\* and the Truncate after the loop.
SequenceLoop(original_values, updated_values, original_index, insert_index, log) ==
    LET popped == pop_front(updated_values) IN
    IF ~popped.some
    THEN IF ExtraValues(original_index, original_values)
         THEN log_change(log, estimate_usize_bytes(insert_index), Truncate(insert_index))
         ELSE log
    ELSE
    LET item == popped.item
        rest == popped.queue
    IN
    IF original_index < Len(original_values)
    THEN
        LET orig == original_values[original_index + 1]
            in_original ==
                FirstIndex(SequenceMatchesInOriginal(original_values, original_index, item))
            in_updated == FirstIndex(SequenceMatchesInUpdated(rest, orig))
        IN
        IF in_original >= 0
        THEN
            \* Found where the updated value is located in the original list.
            IF in_original > 0
            THEN SequenceLoop(original_values, rest,
                     original_index + in_original + 1, insert_index + 1,
                     log_change(log,
                         estimate_usize_bytes(insert_index)
                             + estimate_usize_bytes(in_original),
                         Remove(insert_index, in_original)))
            ELSE SequenceLoop(original_values, rest,
                     original_index + 1, insert_index + 1, log)
        ELSE IF in_updated >= 0
        THEN
            \* Found where the original value is located in the updated list.
            LET run == SequenceInsertRun(rest, item, in_updated + 1, insert_index, log)
            IN  SequenceLoop(original_values, run.queue,
                     original_index + 1, run.insert_index + 1, run.log)
        ELSE
            \* Replace this value or generate a diff for it.
            LET measured == Counter(create_diff(Some(insert_index), orig, item,
                                                "Borrowed", FALSE))
            IN
            IF measured > estimated_bytes(item)
            THEN SequenceLoop(original_values, rest,
                     original_index + 1, insert_index + 1,
                     log_change(log,
                         estimated_bytes(item) + estimate_usize_bytes(insert_index),
                         Replace(Some(insert_index), item)))
            ELSE SequenceLoop(original_values, rest,
                     original_index + 1, insert_index + 1,
                     log \o create_diff(Some(insert_index), orig, item,
                                        popped.cow, FALSE))
    ELSE
        \* Pushing a new value.
        SequenceLoop(original_values, rest, original_index, insert_index + 1,
            log_change(log,
                estimated_bytes(item) + estimate_usize_bytes(insert_index),
                Insert(insert_index, item)))

create_sequence_diff(original_values, updated_values) ==
    SequenceLoop(original_values, updated_values, 0, 0, <<>>)

\* The offsets k >= 0 with updated.0 == original_values[original_index + k].0.
MapMatchesInOriginal(original_values, original_index, entry) ==
    {k \in 0..(Len(original_values) - original_index - 1) :
        EstimatedEq(entry[1], original_values[original_index + 1 + k][1])}

\* The offsets k >= 0 with (remaining updated)[k].0 == original.0.
MapMatchesInUpdated(updated_values, orig) ==
    {k \in 0..(Len(iter(updated_values)) - 1) :
        EstimatedEq(iter(updated_values)[k + 1][1], orig[1])}

MapInsertRun(updated_values, entry, count, insert_index, log) ==
    IF count = 0
    THEN [queue |-> updated_values, item |-> entry,
          insert_index |-> insert_index, log |-> log]
    ELSE LET logged1 == log_change(log,
                            estimated_bytes(entry[1]) + estimated_bytes(entry[2])
                                + estimate_usize_bytes(insert_index),
                            InsertMapping(insert_index, entry[1], entry[2]))
             popped == pop_front(updated_values)
         IN  IF popped.some
             THEN MapInsertRun(popped.queue, popped.item, count - 1,
                               insert_index + 1, logged1)
             ELSE [queue |-> updated_values, item |-> entry,
                   insert_index |-> insert_index + 1,
                   log |-> log_change(logged1, 0, ExpectFailed)]

\* The value of a matched key: nothing when equal, else Replace{index, value}
\* or the sub-diff of the value, whichever is measured smaller.
MapValueChange(orig_value, entry, insert_index, log) ==
    IF ~EstimatedEq(entry[2], orig_value)
    THEN LET measured == Counter(create_diff(Some(insert_index), orig_value,
                                             entry[2], "Borrowed", FALSE))
         IN  IF measured > estimated_bytes(entry[2])
             THEN log_change(log,
                      estimated_bytes(entry[2]) + estimate_usize_bytes(insert_index),
                      Replace(Some(insert_index), entry[2]))
             ELSE log \o create_diff(Some(insert_index), orig_value, entry[2],
                                     "Borrowed", FALSE)
    ELSE log

\* The entry at the cursor when neither key is found by search: a key-only
\* change when the values are equal, else ReplaceMapping.
MapEntryChange(orig, entry, insert_index, log) ==
    IF EstimatedEq(entry[2], orig[2])
    THEN LET measured == Counter(create_diff(Some(insert_index), orig[1],
                                             entry[1], "Borrowed", TRUE))
         IN  IF measured > estimated_bytes(entry[1])
             THEN log_change(log,
                      estimated_bytes(entry[1]) + estimate_usize_bytes(insert_index),
                      ReplaceKey(insert_index, entry[1]))
             ELSE log \o create_diff(Some(insert_index), orig[1], entry[1],
                                     "Borrowed", TRUE)
    ELSE log_change(log,
             estimated_bytes(entry[1]) + estimated_bytes(entry[2])
                 + estimate_usize_bytes(insert_index),
             ReplaceMapping(insert_index, entry[1], entry[2]))

MapLoop(original_values, updated_values, original_index, insert_index, log) ==
    LET popped == pop_front(updated_values) IN
    IF ~popped.some
    THEN IF ExtraValues(original_index, original_values)
         THEN log_change(log, estimate_usize_bytes(insert_index), Truncate(insert_index))
         ELSE log
    ELSE
    LET entry == popped.item
        rest == popped.queue
    IN
    IF original_index < Len(original_values)
    THEN
        LET orig == original_values[original_index + 1]
            in_original ==
                FirstIndex(MapMatchesInOriginal(original_values, original_index, entry))
            in_updated == FirstIndex(MapMatchesInUpdated(rest, orig))
        IN
        IF in_original >= 0
        THEN
            LET removed ==
                    IF in_original > 0
                    THEN log_change(log,
                             estimate_usize_bytes(insert_index) * in_original,
                             Remove(insert_index, in_original))
                    ELSE log
                matched == original_values[original_index + in_original + 1]
            IN  MapLoop(original_values, rest,
                    original_index + in_original + 1, insert_index + 1,
                    MapValueChange(matched[2], entry, insert_index, removed))
        ELSE IF in_updated >= 0
        THEN
            LET run == MapInsertRun(rest, entry, in_updated + 1, insert_index, log)
            IN  MapLoop(original_values, run.queue,
                    original_index + 1, run.insert_index + 1, run.log)
        ELSE
            MapLoop(original_values, rest, original_index + 1, insert_index + 1,
                MapEntryChange(orig, entry, insert_index, log))
    ELSE
        \* Pushing a new value.
        MapLoop(original_values, rest, original_index, insert_index + 1,
            log_change(log,
                estimated_bytes(entry[1]) + estimated_bytes(entry[2])
                    + estimate_usize_bytes(insert_index),
                InsertMapping(insert_index, entry[1], entry[2])))

create_map_diff(original_values, updated_values) ==
    MapLoop(original_values, updated_values, 0, 0, <<>>)

\* The variant under which the Sequence arm frames every pair of sequences.
AlwaysDiffer(original_values, updated_sequence) == TRUE

\* The condition under which the Sequence arm emits anything:
\* `if updated_sequence != original`.
SequencesDiffer(original_values, updated_sequence) ==
    ~EstimatedSeqEq(updated_sequence, original_values)

\* The condition under which the Mappings arm emits anything.
MappingsDiffer(original_values, updated_mappings) ==
    \/ Len(original_values) # Len(updated_mappings)
    \/ \E i \in 1..Min(Len(updated_mappings), Len(original_values)) :
          \/ ~EstimatedEq(updated_mappings[i][1], original_values[i][1])
          \/ ~EstimatedEq(updated_mappings[i][2], original_values[i][2])

\* cow is "Borrowed" or "Owned": how the routine holds `updated`.  The log
\* of every log_change call is returned; the sink decides what it keeps.
create_diff(diff_index, orig, upd, cow, is_key) ==
    IF orig.k = upd.k /\ orig.k \in {"None", "Unit"} THEN <<>>
    ELSE IF orig.k = upd.k /\ orig.k \in {"Bool", "Integer", "Bytes", "String"}
            /\ orig.v = upd.v
    THEN <<>>
    ELSE IF orig.k = "Float" /\ upd.k = "Float" /\ FloatEq(orig.v, upd.v)
    THEN <<>>
    ELSE IF orig.k = "Sequence" /\ upd.k = "Sequence"
    THEN IF SequencesDiffer(orig.v, upd.v)
         THEN log_change(<<>>, estimate_usize_bytes(unwrap_or(diff_index, 0)),
                         EnterSequence(diff_index, is_key))
              \o create_sequence_diff(orig.v, CowDequeOf(cow, upd.v))
              \o log_change(<<>>, 0, Exit)
         ELSE <<>>
    ELSE IF orig.k = "Mappings" /\ upd.k = "Mappings"
    THEN IF MappingsDiffer(orig.v, upd.v)
         THEN log_change(<<>>, unwrap_or(diff_index, 0),
                         EnterMap(diff_index, is_key))
              \o create_map_diff(orig.v, CowDequeOf(cow, upd.v))
              \o log_change(<<>>, 0, Exit)
         ELSE <<>>
    ELSE log_change(<<>>, estimated_bytes(upd), Unreachable)

\* The variant that pops a single trailing Exit.
StripOneExit(changes) ==
    IF changes # <<>> /\ changes[Len(changes)] = Exit
    THEN SubSeq(changes, 1, Len(changes) - 1)
    ELSE changes

\* `while let Some(Change::Exit) = diff.changes.last() { diff.changes.pop(); }`
StripTrailingExits(changes) ==
    IF changes # <<>> /\ changes[Len(changes)] = Exit
    THEN StripTrailingExits(SubSeq(changes, 1, Len(changes) - 1))
    ELSE changes

\* The root measurement of between_values.
RootStats(orig, upd) == Counter(create_diff(None, orig, upd, "Borrowed", FALSE))

\* The variant that replaces when the measured diff is not larger.
RootReplacesInverted(measured, estimate) == measured <= estimate

\* The decision of between_values:
\* `if stats.estimated_bytes > updated.estimated_bytes`.
RootReplaces(measured, estimate) == measured > estimate

\* The log of the emitting run of between_values: the root Replace when the
\* measured diff is larger than the value, else the structural diff.
RootLog(orig, upd) ==
    IF RootReplaces(RootStats(orig, upd), estimated_bytes(upd))
    THEN log_change(<<>>, estimated_bytes(upd), Replace(None, upd))
    ELSE create_diff(None, orig, upd, "Owned", FALSE)

\* A panic reached while the log was produced: a failed expect in either
\* run, or a change closure of the collecting sink that is unreachable!().
Panics(log) ==
    \E i \in 1..Len(log) : log[i].change \in {Unreachable, ExpectFailed}

\* Diff::between_values: the Diff, or the panic that ended it.
between_values(orig, upd) ==
    LET log == RootLog(orig, upd) IN
    IF Panics(log) THEN [panic |-> TRUE, changes |-> <<>>]
    ELSE [panic |-> FALSE, changes |-> StripTrailingExits(Collect(log))]


----------------------------------------------------------------------------
(* Diff::apply_to_value, apply_changes_to_sequence/_mappings               *)

\* Vec operations.
drain(values, index, length) ==
    SubSeq(values, 1, index) \o SubSeq(values, index + length + 1, Len(values))
truncate(values, length) == SubSeq(values, 1, length)
insert(values, index, element) ==
    SubSeq(values, 1, index) \o <<element>> \o SubSeq(values, index + 1, Len(values))

\* The variant of a return that leaves no change to the enclosing level.
WalkedToEnd(values, changes) ==
    [status |-> "Ok", panic |-> "", values |-> values, changes |-> <<>>]

\* What a walk over the change iterator leaves: how it ended ("Ok", or
\* "Panic" with the panic that ended it), the container, the changes not
\* yet read.
Walked(values, changes) ==
    [status |-> "Ok", panic |-> "", values |-> values, changes |-> changes]
\* todo!("error")
Todo(values, changes) ==
    [status |-> "Panic", panic |-> "todo", values |-> values, changes |-> changes]
\* values[index] with index >= len
IndexOutOfBounds(values, changes) ==
    [status |-> "Panic", panic |-> "index out of bounds", values |-> values,
     changes |-> changes]

apply_changes_to_sequence(values, changes) ==
    IF changes = <<>> THEN Walked(values, changes)
    ELSE
    LET change == Head(changes)
        rest == Tail(changes)
    IN
    IF change.change = "Replace" /\ change.index # None
    THEN IF change.index[1] < Len(values)
         THEN apply_changes_to_sequence(
                  [values EXCEPT ![change.index[1] + 1] = change.value], rest)
         ELSE IndexOutOfBounds(values, rest)
    ELSE IF change.change = "Remove"
    THEN IF change.index + change.length <= Len(values)
         THEN apply_changes_to_sequence(drain(values, change.index, change.length), rest)
         ELSE Todo(values, rest)
    ELSE IF change.change = "Truncate"
    THEN IF change.length <= Len(values)
         THEN apply_changes_to_sequence(truncate(values, change.length), rest)
         ELSE Todo(values, rest)
    ELSE IF change.change = "Insert"
    THEN IF change.index <= Len(values)
         THEN apply_changes_to_sequence(insert(values, change.index, change.value), rest)
         ELSE Todo(values, rest)
    ELSE IF change.change = "EnterSequence" /\ change.index # None /\ ~change.key
    THEN IF change.index[1] < Len(values) /\ values[change.index[1] + 1].k = "Sequence"
         THEN LET entered == apply_changes_to_sequence(values[change.index[1] + 1].v, rest)
                  after == [values EXCEPT
                               ![change.index[1] + 1] = ValueSequence(entered.values)]
              IN  IF entered.status = "Ok"
                  THEN apply_changes_to_sequence(after, entered.changes)
                  ELSE [entered EXCEPT !.values = after]
         ELSE Todo(values, rest)
    ELSE IF change.change = "EnterMap" /\ change.index # None /\ ~change.key
    THEN IF change.index[1] < Len(values) /\ values[change.index[1] + 1].k = "Mappings"
         THEN LET entered == apply_changes_to_mappings(values[change.index[1] + 1].v, rest)
                  after == [values EXCEPT
                               ![change.index[1] + 1] = ValueMappings(entered.values)]
              IN  IF entered.status = "Ok"
                  THEN apply_changes_to_sequence(after, entered.changes)
                  ELSE [entered EXCEPT !.values = after]
         ELSE Todo(values, rest)
    ELSE IF change.change = "Exit" THEN Walked(values, rest)
    ELSE Todo(values, rest)

\* The variant that takes the value half whatever the key flag.
ValueHalf(key) == 2

\* `if key { &mut pair.0 } else { &mut pair.1 }`
Half(key) == IF key THEN 1 ELSE 2

apply_changes_to_mappings(values, changes) ==
    IF changes = <<>> THEN Walked(values, changes)
    ELSE
    LET change == Head(changes)
        rest == Tail(changes)
    IN
    IF change.change = "ReplaceMapping"
    THEN IF change.index < Len(values)
         THEN apply_changes_to_mappings(
                  [values EXCEPT ![change.index + 1] = <<change.key, change.value>>], rest)
         ELSE IndexOutOfBounds(values, rest)
    ELSE IF change.change = "Replace" /\ change.index # None
    THEN IF change.index[1] < Len(values)
         THEN apply_changes_to_mappings(
                  [values EXCEPT ![change.index[1] + 1][2] = change.value], rest)
         ELSE IndexOutOfBounds(values, rest)
    ELSE IF change.change = "ReplaceKey"
    THEN IF change.index < Len(values)
         THEN apply_changes_to_mappings(
                  [values EXCEPT ![change.index + 1][1] = change.key], rest)
         ELSE IndexOutOfBounds(values, rest)
    ELSE IF change.change = "Remove"
    THEN IF change.index + change.length <= Len(values)
         THEN apply_changes_to_mappings(drain(values, change.index, change.length), rest)
         ELSE Todo(values, rest)
    ELSE IF change.change = "Truncate"
    THEN IF change.length <= Len(values)
         THEN apply_changes_to_mappings(truncate(values, change.length), rest)
         ELSE Todo(values, rest)
    ELSE IF change.change = "InsertMapping"
    THEN IF change.index <= Len(values)
         THEN apply_changes_to_mappings(
                  insert(values, change.index, <<change.key, change.value>>), rest)
         ELSE Todo(values, rest)
    ELSE IF change.change = "EnterSequence" /\ change.index # None
    THEN IF change.index[1] < Len(values)
            /\ values[change.index[1] + 1][Half(change.key)].k = "Sequence"
         THEN LET entered == apply_changes_to_sequence(
                                 values[change.index[1] + 1][Half(change.key)].v, rest)
                  after == [values EXCEPT ![change.index[1] + 1][Half(change.key)] =
                                              ValueSequence(entered.values)]
              IN  IF entered.status = "Ok"
                  THEN apply_changes_to_mappings(after, entered.changes)
                  ELSE [entered EXCEPT !.values = after]
         ELSE Todo(values, rest)
    ELSE IF change.change = "EnterMap" /\ change.index # None
    THEN IF change.index[1] < Len(values)
            /\ values[change.index[1] + 1][Half(change.key)].k = "Mappings"
         THEN LET entered == apply_changes_to_mappings(
                                 values[change.index[1] + 1][Half(change.key)].v, rest)
                  after == [values EXCEPT ![change.index[1] + 1][Half(change.key)] =
                                              ValueMappings(entered.values)]
              IN  IF entered.status = "Ok"
                  THEN apply_changes_to_mappings(after, entered.changes)
                  ELSE [entered EXCEPT !.values = after]
         ELSE Todo(values, rest)
    ELSE IF change.change = "Exit" THEN Walked(values, rest)
    ELSE Todo(values, rest)

\* The outcome of apply_to_value: Ok(value), Err(error) or a panic.  No
\* path of apply_to_value builds an Err: Error has the one variant
\* ValueDeserialization, which only Diff::apply produces.
ApplyOk(value) == [status |-> "Ok", value |-> value, panic |-> ""]
ApplyPanic(panic) == [status |-> "Panic", value |-> ValueNone, panic |-> panic]

apply_to_value(changes, value) ==
    IF changes = <<>> THEN ApplyOk(value)
    ELSE
    LET first == Head(changes)
        rest == Tail(changes)
    IN
    IF first.change = "Replace" /\ first.index = None
    THEN ApplyOk(first.value)
    ELSE IF first.change = "EnterSequence" /\ first.index = None /\ ~first.key
    THEN IF value.k = "Sequence"
         THEN LET walked == apply_changes_to_sequence(value.v, rest)
              IN  IF walked.status = "Ok"
                  THEN ApplyOk(ValueSequence(walked.values))
                  ELSE ApplyPanic(walked.panic)
         ELSE ApplyPanic("todo")
    ELSE IF first.change = "EnterMap" /\ first.index = None /\ ~first.key
    THEN IF value.k = "Mappings"
         THEN LET walked == apply_changes_to_mappings(value.v, rest)
              IN  IF walked.status = "Ok"
                  THEN ApplyOk(ValueMappings(walked.values))
                  ELSE ApplyPanic(walked.panic)
         ELSE ApplyPanic("todo")
    ELSE ApplyPanic("todo")


----------------------------------------------------------------------------
(* binary: the wire format                                                 *)

VERSION == 0
VERSION_MASK == 127

KEY_FLAG == 1
ROOT_FLAG == 2
MAPPING_FLAG == 4

ENTER_SEQUENCE == 0
ENTER_MAP == 1
EXIT == 2
REPLACE == 3
REMOVE == 4
TRUNCATE == 5
INSERT == 6

\* pot::format::Kind, the top three bits of an atom header.
KIND_SPECIAL == 0
KIND_INT == 1
KIND_UINT == 2
KIND_FLOAT == 3
KIND_SEQUENCE == 4
KIND_MAP == 5
KIND_SYMBOL == 6
KIND_BYTES == 7

RECURSIVE Pow(_, _)
Pow(base, exponent) == IF exponent = 0 THEN 1 ELSE base * Pow(base, exponent - 1)

\* (variant << 4) | extra_info, for variant < 16 and extra_info < 16.
write_change_byte(variant, extra_info) == <<variant * 16 + extra_info>>

\* check_bit, for a flag that is one bit.
check_bit(source, flag) == (source \div flag) % 2 = 1

\* ordered_varint::Variable for usize: the high nibble of the first byte is
\* the number of bytes that follow, the rest is the value, big-endian.
ExtraBytes(value) ==
    IF value < 16 THEN 0
    ELSE IF value < 4096 THEN 1
    ELSE IF value < 1048576 THEN 2
    ELSE 3

encode_variable(value) ==
    LET extra == ExtraBytes(value) IN
    <<extra * 16 + (value \div Pow(256, extra))>>
        \o [i \in 1..extra |-> (value \div Pow(256, extra - i)) % 256]

ReadOk(value, rest) == [ok |-> TRUE, value |-> value, rest |-> rest, error |-> ""]
ReadErr(error) == [ok |-> FALSE, value |-> 0, rest |-> <<>>, error |-> error]

RECURSIVE BigEndian(_)
BigEndian(digits) ==
    IF digits = <<>> THEN 0
    ELSE BigEndian(SubSeq(digits, 1, Len(digits) - 1)) * 256 + digits[Len(digits)]

RECURSIVE LittleEndian(_)
LittleEndian(digits) ==
    IF digits = <<>> THEN 0 ELSE Head(digits) + 256 * LittleEndian(Tail(digits))

\* usize::decode_variable: a short read is io::ErrorKind::UnexpectedEof.
decode_variable(buf) ==
    IF buf = <<>> THEN ReadErr("UnexpectedEof")
    ELSE LET extra == buf[1] \div 16 IN
         IF Len(buf) < 1 + extra THEN ReadErr("UnexpectedEof")
         ELSE ReadOk((buf[1] % 16) * Pow(256, extra)
                         + BigEndian(SubSeq(buf, 2, 1 + extra)),
                     SubSeq(buf, 2 + extra, Len(buf)))

\* The 7-bit groups that continue an atom header's argument.
RECURSIVE ArgContinuation(_)
ArgContinuation(arg) ==
    IF arg = 0 THEN <<>>
    ELSE IF arg \div 128 > 0
         THEN <<128 + (arg % 128)>> \o ArgContinuation(arg \div 128)
         ELSE <<arg % 128>>

\* pot::format::write_atom_header: kind in the top 3 bits, 4 bits of the
\* argument, bit 4 set when more of the argument follows.
write_atom_header(kind, arg) ==
    IF arg < 16 THEN <<kind * 32 + arg>>
    ELSE <<kind * 32 + 16 + (arg % 16)>> \o ArgContinuation(arg \div 16)

\* Integer::write_to, for an integer held signed: the smallest of 1, 2 or 4
\* little-endian bytes of the two's complement.
IntegerWidth(integer) ==
    IF integer >= -128 /\ integer <= 127 THEN 1
    ELSE IF integer >= -32768 /\ integer <= 32767 THEN 2
    ELSE 4

write_integer(integer) ==
    LET width == IntegerWidth(integer)
        unsigned == IF integer >= 0 THEN integer
                    ELSE IF width = 4 THEN integer + 2147483647 + 2147483647 + 2
                    ELSE integer + Pow(256, width)
    IN  write_atom_header(KIND_INT, width - 1)
            \o [i \in 1..width |-> (unsigned \div Pow(256, i - 1)) % 256]

\* Float::write_to: the byte count less one in the header, then the
\* little-endian bytes (the floats written have no shorter exact form).
write_float(float) == write_atom_header(KIND_FLOAT, Len(float) - 1) \o float

write_value(value) ==
    IF value.k = "None" THEN write_atom_header(KIND_SPECIAL, 0)
    ELSE IF value.k = "Unit" THEN write_atom_header(KIND_SPECIAL, 1)
    ELSE IF value.k = "Bool"
    THEN write_atom_header(KIND_SPECIAL, IF value.v THEN 3 ELSE 2)
    ELSE IF value.k = "Integer" THEN write_integer(value.v)
    ELSE IF value.k = "Float" THEN write_float(value.v)
    ELSE IF value.k \in {"Bytes", "String"}
    THEN write_atom_header(KIND_BYTES, Len(value.v)) \o value.v
    ELSE IF value.k = "Sequence"
    THEN write_atom_header(KIND_SEQUENCE, Len(value.v)) \o write_values(value.v)
    ELSE write_atom_header(KIND_MAP, Len(value.v)) \o write_pairs(value.v)

\* `for value in sequence { write_value(writer, value)?; }`
write_values(values) ==
    IF values = <<>> THEN <<>>
    ELSE write_value(Head(values)) \o write_values(Tail(values))

\* `for (key, value) in mappings { write_value(key)?; write_value(value)?; }`
write_pairs(pairs) ==
    IF pairs = <<>> THEN <<>>
    ELSE write_value(Head(pairs)[1]) \o write_value(Head(pairs)[2])
         \o write_pairs(Tail(pairs))

\* The bytes of one change.
encode_change(change) ==
    IF change.change \in {"EnterSequence", "EnterMap"}
    THEN write_change_byte(
             IF change.change = "EnterSequence" THEN ENTER_SEQUENCE ELSE ENTER_MAP,
             (IF change.key THEN KEY_FLAG ELSE 0)
                 + (IF change.index = None THEN ROOT_FLAG ELSE 0))
         \o (IF change.index = None THEN <<>> ELSE encode_variable(change.index[1]))
    ELSE IF change.change = "Exit" THEN write_change_byte(EXIT, 0)
    ELSE IF change.change = "Replace"
    THEN write_change_byte(REPLACE, IF change.index = None THEN ROOT_FLAG ELSE 0)
         \o (IF change.index = None THEN <<>> ELSE encode_variable(change.index[1]))
         \o write_value(change.value)
    ELSE IF change.change = "ReplaceKey"
    THEN write_change_byte(REPLACE, KEY_FLAG)
         \o encode_variable(change.index) \o write_value(change.key)
    ELSE IF change.change = "ReplaceMapping"
    THEN write_change_byte(REPLACE, MAPPING_FLAG)
         \o encode_variable(change.index)
         \o write_value(change.key) \o write_value(change.value)
    ELSE IF change.change = "Remove"
    THEN write_change_byte(REMOVE, 0)
         \o encode_variable(change.index) \o encode_variable(change.length)
    ELSE IF change.change = "Truncate"
    THEN write_change_byte(TRUNCATE, 0) \o encode_variable(change.length)
    ELSE IF change.change = "Insert"
    THEN write_change_byte(INSERT, 0)
         \o encode_variable(change.index) \o write_value(change.value)
    ELSE write_change_byte(INSERT, MAPPING_FLAG)
         \o encode_variable(change.index)
         \o write_value(change.key) \o write_value(change.value)

encode_changes(changes) ==
    IF changes = <<>> THEN <<>>
    ELSE encode_change(Head(changes)) \o encode_changes(Tail(changes))

\* binary::encode into an empty Vec (Diff::serialize).
encode(changes) ==
    <<VERSION>> \o encode_variable(Len(changes)) \o encode_changes(changes)


----------------------------------------------------------------------------
(* binary: decoding                                                        *)

\* pot::format::read_atom.  Every failure of it is a pot::Error, which
\* DecodeError wraps as Pot.
RECURSIVE read_arg(_, _, _)
read_arg(buf, factor, acc) ==
    IF buf = <<>> THEN ReadErr("Pot")
    ELSE LET more == acc + (buf[1] % 128) * factor IN
         IF buf[1] >= 128 THEN read_arg(Tail(buf), factor * 128, more)
         ELSE ReadOk(more, Tail(buf))

AtomOk(kind, arg, nucleus, rest) ==
    [ok |-> TRUE, kind |-> kind, arg |-> arg, nucleus |-> nucleus, rest |-> rest]
AtomErr == [ok |-> FALSE, kind |-> 0, arg |-> 0, nucleus |-> [n |-> "none"], rest |-> <<>>]

\* Option<Nucleus>
NoNucleus == [n |-> "none"]
Nucleus(name, payload) == [n |-> name, v |-> payload]

\* The byte counts Integer::read_from and Float::read_from accept.
IntegerWidths == {1, 2, 3, 4, 6, 8, 16}
FloatWidths == {2, 4, 8}

\* A little-endian integer of the given kind (two's complement for Int).
read_integer(kind, digits) ==
    IF kind = KIND_INT /\ digits[Len(digits)] >= 128
    THEN LittleEndian(digits) - Pow(256, Len(digits))
    ELSE LittleEndian(digits)

read_atom(buf) ==
    LET kind == buf[1] \div 32
        Atom(arg, rest) ==
            IF kind = KIND_SPECIAL
            THEN IF arg = 0 THEN AtomOk(kind, arg, NoNucleus, rest)
                 ELSE IF arg = 1 THEN AtomOk(kind, arg, Nucleus("Unit", 0), rest)
                 ELSE IF arg = 2 THEN AtomOk(kind, arg, Nucleus("Boolean", FALSE), rest)
                 ELSE IF arg = 3 THEN AtomOk(kind, arg, Nucleus("Boolean", TRUE), rest)
                 ELSE IF arg = 4 THEN AtomOk(kind, arg, Nucleus("Named", 0), rest)
                 ELSE IF arg = 5 THEN AtomOk(kind, arg, Nucleus("DynamicMap", 0), rest)
                 ELSE IF arg = 6 THEN AtomOk(kind, arg, Nucleus("DynamicEnd", 0), rest)
                 ELSE AtomErr
            ELSE IF kind \in {KIND_INT, KIND_UINT}
            THEN IF arg + 1 \in IntegerWidths /\ Len(rest) >= arg + 1
                 THEN AtomOk(kind, arg,
                          Nucleus("Integer", read_integer(kind, SubSeq(rest, 1, arg + 1))),
                          SubSeq(rest, arg + 2, Len(rest)))
                 ELSE AtomErr
            ELSE IF kind = KIND_FLOAT
            THEN IF arg + 1 \in FloatWidths /\ Len(rest) >= arg + 1
                 THEN AtomOk(kind, arg, Nucleus("Float", SubSeq(rest, 1, arg + 1)),
                             SubSeq(rest, arg + 2, Len(rest)))
                 ELSE AtomErr
            ELSE IF kind = KIND_BYTES
            THEN IF Len(rest) >= arg
                 THEN AtomOk(kind, arg, Nucleus("Bytes", SubSeq(rest, 1, arg)),
                             SubSeq(rest, arg + 1, Len(rest)))
                 ELSE AtomErr
            ELSE AtomOk(kind, arg, NoNucleus, rest)
        Header(header) == IF header.ok THEN Atom(header.value, header.rest) ELSE AtomErr
    IN
    IF buf = <<>> THEN AtomErr
    ELSE IF check_bit(buf[1], 16) THEN Header(read_arg(Tail(buf), 16, buf[1] % 16))
    ELSE Atom(buf[1] % 16, Tail(buf))

\* The variant that takes ASCII alone for text.
is_ascii(bs) == \A i \in 1..Len(bs) : bs[i] <= 127

\* std::str::from_utf8(bytes).is_ok()
Continuation(b) == b >= 128 /\ b <= 191
RECURSIVE is_utf8(_)
is_utf8(bs) ==
    IF bs = <<>> THEN TRUE
    ELSE IF bs[1] <= 127 THEN is_utf8(Tail(bs))
    ELSE IF bs[1] >= 194 /\ bs[1] <= 223
    THEN Len(bs) >= 2 /\ Continuation(bs[2]) /\ is_utf8(SubSeq(bs, 3, Len(bs)))
    ELSE IF bs[1] >= 224 /\ bs[1] <= 239
    THEN /\ Len(bs) >= 3
         /\ Continuation(bs[2]) /\ Continuation(bs[3])
         /\ (bs[1] = 224 => bs[2] >= 160)
         /\ (bs[1] = 237 => bs[2] <= 159)
         /\ is_utf8(SubSeq(bs, 4, Len(bs)))
    ELSE IF bs[1] >= 240 /\ bs[1] <= 244
    THEN /\ Len(bs) >= 4
         /\ Continuation(bs[2]) /\ Continuation(bs[3]) /\ Continuation(bs[4])
         /\ (bs[1] = 240 => bs[2] >= 144)
         /\ (bs[1] = 244 => bs[2] <= 143)
         /\ is_utf8(SubSeq(bs, 5, Len(bs)))
    ELSE FALSE

\* The guard of the Sequence and Map arms of read_value:
\* `if length < bytes.len()`.
length_fits(length, remaining) == length < remaining

read_value(buf) ==
    LET Sequence(children) ==
            IF children.ok THEN ReadOk(ValueSequence(children.value), children.rest)
            ELSE children
        Mappings(children) ==
            IF children.ok THEN ReadOk(ValueMappings(children.value), children.rest)
            ELSE children
        Value(atom) ==
            IF ~atom.ok THEN ReadErr("Pot")
            ELSE IF atom.kind = KIND_SPECIAL
            THEN IF atom.nucleus.n = "Unit" THEN ReadOk(ValueUnit, atom.rest)
                 ELSE IF atom.nucleus.n = "Boolean"
                 THEN ReadOk(ValueBool(atom.nucleus.v), atom.rest)
                 ELSE IF atom.nucleus = NoNucleus THEN ReadOk(ValueNone, atom.rest)
                 ELSE ReadErr("InvalidData")
            ELSE IF atom.kind \in {KIND_INT, KIND_UINT}
            THEN ReadOk(ValueInteger(atom.nucleus.v), atom.rest)
            ELSE IF atom.kind = KIND_FLOAT
            THEN ReadOk(ValueFloat(atom.nucleus.v), atom.rest)
            ELSE IF atom.kind = KIND_SEQUENCE
            THEN IF length_fits(atom.arg, Len(atom.rest))
                 THEN Sequence(read_values(atom.rest, atom.arg, <<>>))
                 ELSE ReadErr("InvalidData")
            ELSE IF atom.kind = KIND_MAP
            THEN IF length_fits(atom.arg, Len(atom.rest))
                 THEN Mappings(read_pairs(atom.rest, atom.arg, <<>>))
                 ELSE ReadErr("InvalidData")
            ELSE IF atom.kind = KIND_SYMBOL THEN ReadErr("InvalidData")
            ELSE IF is_utf8(atom.nucleus.v)
                 THEN ReadOk(ValueString(atom.nucleus.v), atom.rest)
                 ELSE ReadOk(ValueBytes(atom.nucleus.v), atom.rest)
    IN  Value(read_atom(buf))

\* `for _ in 0..length { values.push(read_value(bytes)?); }`
read_values(buf, count, values) ==
    LET Push(child) ==
            IF child.ok
            THEN read_values(child.rest, count - 1, Append(values, child.value))
            ELSE child
    IN  IF count = 0 THEN ReadOk(values, buf) ELSE Push(read_value(buf))

\* `for _ in 0..length { let key = read_value(bytes)?;
\*                       let value = read_value(bytes)?; values.push((key, value)); }`
read_pairs(buf, count, values) ==
    LET Push(key, value) ==
            IF value.ok
            THEN read_pairs(value.rest, count - 1,
                            Append(values, <<key.value, value.value>>))
            ELSE value
        Key(key) == IF key.ok THEN Push(key, read_value(key.rest)) ELSE key
    IN  IF count = 0 THEN ReadOk(values, buf) ELSE Key(read_value(buf))

\* The variant of the REPLACE arm that checks no flag combination: a set
\* KEY flag reads a ReplaceKey, else a set MAPPING flag a ReplaceMapping.
ReplaceLayoutUnchecked(is_root, key, is_mapping) ==
    IF key THEN <<"usize", "value">>
    ELSE IF is_mapping THEN <<"usize", "value", "value">>
    ELSE IF is_root THEN <<"value">> ELSE <<"usize", "value">>

\* `match (is_root, key, is_mapping)` of the REPLACE arm: what each
\* accepted combination reads, and "invalid" for every other one.
ReplaceLayout(is_root, key, is_mapping) ==
    IF ~key /\ ~is_mapping
    THEN IF is_root THEN <<"value">> ELSE <<"usize", "value">>
    ELSE IF ~is_root /\ key /\ ~is_mapping THEN <<"usize", "value">>
    ELSE IF ~is_root /\ ~key /\ is_mapping THEN <<"usize", "value", "value">>
    ELSE <<"invalid">>

\* What read_change reads after a change byte, in order: "usize" is
\* usize::decode_variable, "value" is read_value, "invalid" is a header
\* that no arm of the match accepts.
ChangeLayout(header) ==
    LET variant == header \div 16
        key == check_bit(header, KEY_FLAG)
        is_root == check_bit(header, ROOT_FLAG)
        is_mapping == check_bit(header, MAPPING_FLAG)
    IN
    IF variant \in {ENTER_SEQUENCE, ENTER_MAP}
    THEN IF is_root THEN <<>> ELSE <<"usize">>
    ELSE IF variant = EXIT THEN <<>>
    ELSE IF variant = REPLACE THEN ReplaceLayout(is_root, key, is_mapping)
    ELSE IF variant = REMOVE THEN <<"usize", "usize">>
    ELSE IF variant = TRUNCATE THEN <<"usize">>
    ELSE IF variant = INSERT
    THEN IF is_mapping THEN <<"usize", "value", "value">> ELSE <<"usize", "value">>
    ELSE <<"invalid">>

\* The reads of one arm of read_change, each ending the arm on its error
\* (the `?` operators).
read_fields(buf, layout, fields) ==
    IF layout = <<>> THEN ReadOk(fields, buf)
    ELSE IF Head(layout) = "invalid" THEN ReadErr("InvalidData")
    ELSE LET Push(field) ==
                 IF field.ok
                 THEN read_fields(field.rest, Tail(layout), Append(fields, field.value))
                 ELSE field
         IN  IF Head(layout) = "usize" THEN Push(decode_variable(buf))
             ELSE Push(read_value(buf))

\* The Change an arm of read_change builds from what it read.
ChangeOf(header, fields) ==
    LET variant == header \div 16
        key == check_bit(header, KEY_FLAG)
        is_root == check_bit(header, ROOT_FLAG)
        is_mapping == check_bit(header, MAPPING_FLAG)
    IN
    IF variant = ENTER_SEQUENCE
    THEN EnterSequence(IF is_root THEN None ELSE Some(fields[1]), key)
    ELSE IF variant = ENTER_MAP
    THEN EnterMap(IF is_root THEN None ELSE Some(fields[1]), key)
    ELSE IF variant = EXIT THEN Exit
    ELSE IF variant = REPLACE
    THEN IF key THEN ReplaceKey(fields[1], fields[2])
         ELSE IF is_mapping THEN ReplaceMapping(fields[1], fields[2], fields[3])
         ELSE IF is_root THEN Replace(None, fields[1])
         ELSE Replace(Some(fields[1]), fields[2])
    ELSE IF variant = REMOVE THEN Remove(fields[1], fields[2])
    ELSE IF variant = TRUNCATE THEN Truncate(fields[1])
    ELSE IF is_mapping THEN InsertMapping(fields[1], fields[2], fields[3])
    ELSE Insert(fields[1], fields[2])

read_change(buf) ==
    IF buf = <<>> THEN ReadErr("UnexpectedEof")
    ELSE LET Build(fields) ==
                 IF fields.ok THEN ReadOk(ChangeOf(buf[1], fields.value), fields.rest)
                 ELSE fields
         IN  Build(read_fields(Tail(buf), ChangeLayout(buf[1]), <<>>))

\* `for _ in 0..number_of_changes { diff.changes.push(read_change(..)?); }`
\* On an error, value holds the changes read before it.
read_changes(buf, count, changes) ==
    LET Push(change) ==
            IF change.ok
            THEN read_changes(change.rest, count - 1, Append(changes, change.value))
            ELSE [change EXCEPT !.value = changes]
    IN  IF count = 0 THEN ReadOk(changes, buf) ELSE Push(read_change(buf))

\* The variant that masks nothing: only 0x00 is version 0.
version_is_zero(header) == header = VERSION

\* `header & 0x7F != 0` is the rejection of a version.
version_supported(header) == header % (VERSION_MASK + 1) = VERSION

\* The variant that also rejects a count equal to the remaining bytes.
too_many_or_as_many_changes(number_of_changes, remaining) ==
    number_of_changes >= remaining

\* The sanity check: `number_of_changes > bytes.len()` is rejected.
too_many_changes(number_of_changes, remaining) == number_of_changes > remaining

\* The outcome of decode, with what it went through: stage is the step
\* that returned ("header": the version byte could not be read, "version",
\* "count": the count could not be read, "sanity": the count check,
\* "change": a change could not be read, "done"); count and remaining are
\* number_of_changes and bytes.len() at the sanity check (-1 before it);
\* read is the number of changes pushed.
Decoded(stage, error, changes, count, remaining, read) ==
    [ok |-> error = "", stage |-> stage, error |-> error, changes |-> changes,
     count |-> count, remaining |-> remaining, read |-> read]

decode(buf) ==
    LET Changes(changes, count, remaining) ==
            IF changes.ok
            THEN Decoded("done", "", changes.value, count, remaining, Len(changes.value))
            ELSE Decoded("change", changes.error, <<>>, count, remaining,
                         Len(changes.value))
        Count(number_of_changes) ==
            IF ~number_of_changes.ok
            THEN Decoded("count", number_of_changes.error, <<>>, -1, -1, 0)
            ELSE IF too_many_changes(number_of_changes.value, Len(number_of_changes.rest))
            THEN Decoded("sanity", "InvalidData", <<>>,
                         number_of_changes.value, Len(number_of_changes.rest), 0)
            ELSE Changes(read_changes(number_of_changes.rest,
                                      number_of_changes.value, <<>>),
                         number_of_changes.value, Len(number_of_changes.rest))
    IN
    IF buf = <<>> THEN Decoded("header", "UnexpectedEof", <<>>, -1, -1, 0)
    ELSE IF ~version_supported(buf[1])
    THEN Decoded("version", "UnsupportedVersion", <<>>, -1, -1, 0)
    ELSE Count(decode_variable(Tail(buf)))

----------------------------------------------------------------------------
(* Inputs                                                                  *)

\* The longest flat container among the inputs.
MaxLen == 2
\* The longest script handed to the codec and the applier directly.
MaxChanges == 2
\* The longest buffer handed to decode directly.
MaxBuf == 4

\* All sequences over S of length at most n.
SeqsUpTo(S, n) == UNION {[1..m -> S] : m \in 0..n}

Ints == {ValueInteger(1), ValueInteger(2)}

\* f32::NAN and 0.1f32, little-endian.
F32_NAN == <<0, 0, 192, 127>>
F32_TENTH == <<205, 204, 204, 61>>
Floats == {ValueFloat(F32_NAN), ValueFloat(F32_TENTH)}

\* Primitives, among them a two-byte integer, "a" as String and as Bytes
\* (valid UTF-8), the byte 0xff (not UTF-8), and two floats.
Atoms ==
    Ints \cup Floats
         \cup {ValueNone, ValueUnit, ValueBool(TRUE), ValueInteger(300),
               ValueString(<<97>>), ValueBytes(<<97>>), ValueBytes(<<255>>)}

IntSeqs == {ValueSequence(s) : s \in SeqsUpTo(Ints, MaxLen)}
IntMaps == {ValueMappings(es) : es \in SeqsUpTo(Ints \X Ints, MaxLen)}

\* The composites found one level down.
Children ==
    {ValueSequence(<<>>), ValueSequence(<<ValueInteger(1)>>),
     ValueSequence(<<ValueInteger(1), ValueInteger(2)>>),
     ValueMappings(<<>>), ValueMappings(<<<<ValueInteger(1), ValueInteger(2)>>>>)}

\* Sequences of integers with one element replaced by a composite.
NestedSeqs ==
    UNION {{ValueSequence([s EXCEPT ![i] = c]) : i \in 1..Len(s), c \in Children} :
              s \in SeqsUpTo(Ints, MaxLen)}

\* One-entry mappings with a composite key or a composite value.
NestedMaps ==
    {ValueMappings(<<<<c, i>>>>) : c \in Children, i \in Ints}
        \cup {ValueMappings(<<<<i, c>>>>) : c \in Children, i \in Ints}

\* Composites that hold a float.
FloatComposites ==
    {ValueSequence(<<f>>) : f \in Floats}
        \cup {ValueSequence(<<ValueInteger(1), f>>) : f \in Floats}
        \cup {ValueMappings(<<<<ValueInteger(1), f>>>>) : f \in Floats}
        \cup {ValueMappings(<<<<f, ValueInteger(1)>>>>) : f \in Floats}

Values ==
    Atoms \cup IntSeqs \cup IntMaps \cup NestedSeqs \cup NestedMaps
          \cup FloatComposites

\* The value holds a NaN float somewhere.
RECURSIVE HasNaN(_)
HasNaN(value) ==
    IF value.k = "Float" THEN is_nan(value.v)
    ELSE IF value.k = "Sequence" THEN \E i \in 1..Len(value.v) : HasNaN(value.v[i])
    ELSE IF value.k = "Mappings"
    THEN \E i \in 1..Len(value.v) : HasNaN(value.v[i][1]) \/ HasNaN(value.v[i][2])
    ELSE FALSE

\* The changes of the scripts handed to the codec and the applier.
ScriptValues == {ValueInteger(1), ValueSequence(<<>>), ValueBytes(<<97>>)}
ScriptChanges ==
    {EnterSequence(None, FALSE), EnterSequence(Some(0), FALSE),
     EnterMap(None, FALSE), EnterMap(Some(0), TRUE), Exit,
     Remove(0, 1), Truncate(1), Truncate(3),
     ReplaceKey(0, ValueInteger(2)),
     ReplaceMapping(1, ValueInteger(1), ValueInteger(2)),
     InsertMapping(0, ValueInteger(2), ValueSequence(<<>>))}
        \cup {Replace(None, v) : v \in ScriptValues}
        \cup {Replace(Some(1), v) : v \in ScriptValues}
        \cup {Insert(0, v) : v \in ScriptValues}
Scripts == SeqsUpTo(ScriptChanges, MaxChanges)
Targets ==
    {ValueInteger(1),
     ValueSequence(<<ValueInteger(1)>>),
     ValueSequence(<<ValueSequence(<<ValueInteger(1)>>), ValueInteger(2)>>),
     ValueMappings(<<<<ValueInteger(1), ValueInteger(1)>>>>)}

\* The bytes of the buffers handed to decode: version bytes 0x00 and 0x80,
\* a bad version 0x01, counts, change bytes and atom headers.
BufferBytes == {0, 1, 2, 32, 50, 128, 129}

\* The most bytes that follow the change byte of a one-change buffer.
MaxFields == 3

\* Change bytes: every flag combination of the REPLACE variant, REPLACE
\* with the unused fourth bit, and variants no arm accepts.
ChangeBytes ==
    {REPLACE * 16 + flags : flags \in 0..8} \cup {7 * 16, 9 * 16 + ROOT_FLAG, 15 * 16}

\* Buffers of one change: the version, the count 1, a change byte and what
\* follows it (indexes 0 and 1, the atoms None and Unit).
ChangeBuffers ==
    {<<VERSION, 1, header>> \o fields :
        header \in ChangeBytes, fields \in SeqsUpTo({0, 1}, MaxFields)}

Buffers == SeqsUpTo(BufferBytes, MaxBuf) \cup ChangeBuffers

----------------------------------------------------------------------------
(* The pipeline                                                            *)

NoDiff == [panic |-> FALSE, changes |-> <<>>]

\* Diffable::new(value): latest is the serialized value, dirty is false.
DiffableNew(value) == [active |-> value, dirty |-> FALSE, latest |-> value]

\* The last operation on a Diffable, and whether it found it dirty.
Operation(op, dirty) == [op |-> op, dirty |-> dirty]

\* No Diffable is in use.
NoDiffable ==
    /\ diffable = DiffableNew(ValueNone)
    /\ replica = ValueNone
    /\ returned = None
    /\ last = Operation("none", FALSE)

\* Nothing was rendered.
NotRendered == [done |-> FALSE, text |-> <<>>]
Rendered(text) == [done |-> TRUE, text |-> text]

\* The outcome of decode_string / decode_bytes: the Result (Ok(bytes_read)
\* or the error) and what was pushed to the output.
ParseOk(bytes_read, out) ==
    [done |-> TRUE, ok |-> TRUE, error |-> "", bytes_read |-> bytes_read, out |-> out]
ParseErr(error, out) ==
    [done |-> TRUE, ok |-> FALSE, error |-> error, bytes_read |-> 0, out |-> out]
NotParsed ==
    [done |-> FALSE, ok |-> FALSE, error |-> "", bytes_read |-> 0, out |-> <<>>]

\* No text is rendered or parsed, and nothing was compared.
NotCompared == [done |-> FALSE, equal |-> FALSE]
NotRead == [done |-> FALSE, result |-> ReadErr("")]
NoText ==
    /\ input = ValueNone
    /\ rendering = NotRendered
    /\ parsed = NotParsed
    /\ compared = NotCompared
    /\ value_read = NotRead
NotDecoded == Decoded("none", "", <<>>, -1, -1, 0)
NotApplied == [status |-> "None", value |-> ValueNone, panic |-> ""]

\* between_values(original, updated)
Between ==
    /\ pc = "start"
    /\ stats' = RootStats(original, updated)
    /\ logged' = RootLog(original, updated)
    /\ diff' = between_values(original, updated)
    /\ pc' = "diffed"
    /\ UNCHANGED <<original, updated, bytes, decoded, applied>>
    /\ UNCHANGED <<diffable_vars, text_vars, compare_vars>>

\* diff.apply_to_value(original)
Apply ==
    /\ pc = "diffed"
    /\ ~diff.panic
    /\ applied' = apply_to_value(diff.changes, original)
    /\ pc' = "applied"
    /\ UNCHANGED <<original, updated, stats, logged, diff, bytes, decoded>>
    /\ UNCHANGED <<diffable_vars, text_vars, compare_vars>>

\* diff.serialize()
Serialize ==
    /\ pc = "applied"
    /\ bytes' = encode(diff.changes)
    /\ pc' = "encoded"
    /\ UNCHANGED <<original, updated, stats, logged, diff, decoded, applied>>
    /\ UNCHANGED <<diffable_vars, text_vars, compare_vars>>

\* Diff::deserialize(bytes)
Deserialize ==
    /\ pc = "encoded"
    /\ decoded' = decode(bytes)
    /\ pc' = "decoded"
    /\ UNCHANGED <<original, updated, stats, logged, diff, bytes, applied>>
    /\ UNCHANGED <<diffable_vars, text_vars, compare_vars>>

\* decoded.apply_to_value(original)
ApplyDecoded ==
    /\ pc = "decoded"
    /\ decoded.ok
    /\ applied' = apply_to_value(decoded.changes, original)
    /\ pc' = "reapplied"
    /\ UNCHANGED <<original, updated, stats, logged, diff, bytes, decoded>>
    /\ UNCHANGED <<diffable_vars, text_vars, compare_vars>>

\* A diff is taken between two values, applied, serialized, deserialized
\* and applied again.
Init ==
    /\ original \in Values
    /\ updated \in Values
    /\ stats = -1
    /\ logged = <<>>
    /\ diff = NoDiff
    /\ bytes = <<>>
    /\ decoded = NotDecoded
    /\ applied = NotApplied
    /\ pc = "start"
    /\ NoDiffable
    /\ NoText

Next == Between \/ Apply \/ Serialize \/ Deserialize \/ ApplyDecoded

Spec == Init /\ [][Next]_vars

\* Any script is applied to a target, serialized, deserialized and applied
\* again.
InitScript ==
    /\ original \in Targets
    /\ updated = ValueNone
    /\ stats = -1
    /\ logged = <<>>
    /\ diff \in {[panic |-> FALSE, changes |-> script] : script \in Scripts}
    /\ bytes = <<>>
    /\ decoded = NotDecoded
    /\ applied = NotApplied
    /\ pc = "diffed"
    /\ NoDiffable
    /\ NoText

NextScript == Apply \/ Serialize \/ Deserialize \/ ApplyDecoded

SpecScript == InitScript /\ [][NextScript]_vars

\* Any buffer is deserialized.
InitBytes ==
    /\ original = ValueNone
    /\ updated = ValueNone
    /\ stats = -1
    /\ logged = <<>>
    /\ diff = NoDiff
    /\ bytes \in Buffers
    /\ decoded = NotDecoded
    /\ applied = NotApplied
    /\ pc = "encoded"
    /\ NoDiffable
    /\ NoText

NextBytes == Deserialize \/ ApplyDecoded

SpecBytes == InitBytes /\ [][NextBytes]_vars

----------------------------------------------------------------------------
(* text: StringDisplay, decode_string, BytesDisplay, decode_bytes          *)
(* A str is the sequence of its chars (code points), a text written by a   *)
(* Display implementation likewise.                                        *)

\* The `x` format of a nibble (lower-case hexadecimal).
LowerHex(nibble) == IF nibble < 10 THEN 48 + nibble ELSE 87 + nibble

\* encode_hex_nibble: b'0' + nibble below 10, else b'a' + nibble.
encode_hex_nibble(nibble) == IF nibble < 10 THEN 48 + nibble ELSE 97 + nibble

\* decode_hex_nibble
decode_hex_nibble(byte) ==
    IF byte >= 48 /\ byte <= 57 THEN [ok |-> TRUE, value |-> byte - 48]
    ELSE IF byte >= 97 /\ byte <= 102 THEN [ok |-> TRUE, value |-> byte - 97 + 10]
    ELSE [ok |-> FALSE, value |-> 0]

\* char::len_utf8
len_utf8(ch) ==
    IF ch < 128 THEN 1 ELSE IF ch < 2048 THEN 2 ELSE IF ch < 65536 THEN 3 ELSE 4

\* str::len of a text: its length in bytes.
RECURSIVE str_len(_)
str_len(chars) == IF chars = <<>> THEN 0 ELSE len_utf8(Head(chars)) + str_len(Tail(chars))

\* What StringDisplay writes for one char: the match of its loop.
StringDisplayChar(ch) ==
    IF ch = 34 THEN <<92, 34>>
    ELSE IF ch = 92 THEN <<92, 92>>
    ELSE IF ch = 10 THEN <<92, 110>>
    ELSE IF ch = 13 THEN <<92, 114>>
    ELSE IF ch = 9 THEN <<92, 116>>
    ELSE IF ch = 0 THEN <<92, 48>>
    ELSE IF ch >= 32 THEN <<ch>>
    ELSE <<92, 120, encode_hex_nibble(ch \div 16), encode_hex_nibble(ch % 16)>>

RECURSIVE StringDisplayChars(_)
StringDisplayChars(str) ==
    IF str = <<>> THEN <<>>
    ELSE StringDisplayChar(Head(str)) \o StringDisplayChars(Tail(str))

\* impl Display for StringDisplay
StringDisplay(str) == <<34>> \o StringDisplayChars(str) \o <<34>>

\* The `\x` arm of decode_string: the two nibbles (each char cast with
\* `as u8`) and the check that they name a control character.
RECURSIVE decode_chars(_, _, _)
decode_hex_escape(chars, bytes_read, out) ==
    LET Low(high, low) ==
            IF ~low.ok THEN ParseErr("InvalidHexadecimal", out)
            ELSE IF high.value * 16 + low.value >= 32 THEN ParseErr("InvalidEscape", out)
            ELSE decode_chars(SubSeq(chars, 3, Len(chars)), bytes_read,
                              Append(out, high.value * 16 + low.value))
        High(high) ==
            IF ~high.ok THEN ParseErr("InvalidHexadecimal", out)
            ELSE IF Len(chars) < 2 THEN ParseErr("InvalidHexadecimal", out)
            ELSE Low(high, decode_hex_nibble(chars[2] % 256))
    IN  IF chars = <<>> THEN ParseErr("InvalidHexadecimal", out)
        ELSE High(decode_hex_nibble(chars[1] % 256))

\* The `while let Some(char) = chars.next()` loop of decode_string.
decode_chars(chars, bytes_read, out) ==
    IF chars = <<>> THEN ParseErr("MissingQuote", out)
    ELSE LET char == Head(chars)
             read == bytes_read + len_utf8(char)
             rest == Tail(chars)
             Escaped(ch) == decode_chars(Tail(rest), read + 1, Append(out, ch))
         IN  IF char = 92
             THEN IF rest = <<>> THEN ParseErr("InvalidEscape", out)
                  ELSE IF rest[1] = 34 THEN Escaped(34)
                  ELSE IF rest[1] = 92 THEN Escaped(92)
                  ELSE IF rest[1] = 110 THEN Escaped(10)
                  ELSE IF rest[1] = 114 THEN Escaped(13)
                  ELSE IF rest[1] = 116 THEN Escaped(9)
                  ELSE IF rest[1] = 48 THEN Escaped(0)
                  ELSE IF rest[1] = 120
                  THEN decode_hex_escape(Tail(rest), read + 1 + 2, out)
                  ELSE ParseErr("InvalidEscape", out)
             ELSE IF char = 34 THEN ParseOk(read, out)
             ELSE decode_chars(rest, read, Append(out, char))

\* decode_string(string, &mut String::new())
decode_string(string) ==
    IF string # <<>> /\ string[1] = 34
    THEN decode_chars(Tail(string), 1, <<>>)
    ELSE decode_chars(string, 0, <<>>)

\* The printable ASCII chars, from the space (32) to the tilde (126); the
\* entry of the grave accent (96) is left empty.
Glyphs ==
    <<" ", "!", "\"", "#", "$", "%", "&", "'", "(", ")", "*", "+", ",", "-", ".", "/",
      "0", "1", "2", "3", "4", "5", "6", "7", "8", "9", ":", ";", "<", "=", ">", "?",
      "@", "A", "B", "C", "D", "E", "F", "G", "H", "I", "J", "K", "L", "M", "N", "O",
      "P", "Q", "R", "S", "T", "U", "V", "W", "X", "Y", "Z", "[", "\\", "]", "^", "_",
      "", "a", "b", "c", "d", "e", "f", "g", "h", "i", "j", "k", "l", "m", "n", "o",
      "p", "q", "r", "s", "t", "u", "v", "w", "x", "y", "z", "{", "|", "}", "~">>

\* The code point of a printable ASCII char.
Code(glyph) == 31 + CHOOSE i \in 1..Len(Glyphs) : Glyphs[i] = glyph

\* A text, given char by char.
Text(glyphs) == [i \in 1..Len(glyphs) |-> Code(glyphs[i])]

\* The variant of is_printable that leaves `;` printable.
is_printable_or_semicolon(ch) == ch >= 32 /\ ch < 127 /\ ch # 124

\* is_printable of BytesDisplay: (32..127) without `|` and `;`.
is_printable(ch) == ch >= 32 /\ ch < 127 /\ ch # 124 /\ ch # 59

\* The loop of BytesDisplay::fmt from one byte on: the mode switch (with
\* its `|`), then the byte as `{byte:02x}` or as a char.
RECURSIVE BytesDisplayFrom(_, _)
BytesDisplayFrom(bs, in_hex) ==
    IF bs = <<>> THEN <<>>
    ELSE LET byte == Head(bs)
             to_ascii == /\ in_hex
                         /\ is_printable(byte)
                         /\ Len(bs) >= 2 /\ is_printable(bs[2])
             to_hex == ~in_hex /\ ~is_printable(byte)
             now_hex == IF in_hex THEN ~to_ascii ELSE to_hex
         IN  (IF to_ascii \/ to_hex THEN <<124>> ELSE <<>>)
             \o (IF now_hex THEN <<LowerHex(byte \div 16), LowerHex(byte % 16)>>
                 ELSE <<byte>>)
             \o BytesDisplayFrom(Tail(bs), now_hex)

\* impl Display for BytesDisplay
BytesDisplay(bs) == <<35>> \o BytesDisplayFrom(bs, TRUE)

\* The `while let Some(byte) = encoded.next()` loop of decode_bytes.
RECURSIVE decode_bytes_loop(_, _, _, _, _)
decode_bytes_loop(encoded, end_on, in_hex, bytes_read, out) ==
    IF encoded = <<>> THEN ParseOk(bytes_read, out)
    ELSE LET byte == Head(encoded)
             Pair(high, low) ==
                 IF ~high.ok \/ ~low.ok THEN ParseErr("InvalidHexadecimal", out)
                 ELSE decode_bytes_loop(SubSeq(encoded, 3, Len(encoded)), end_on,
                                        in_hex, bytes_read + 2,
                                        Append(out, high.value * 16 + low.value))
         IN  IF byte = 124
             THEN decode_bytes_loop(Tail(encoded), end_on, ~in_hex, bytes_read + 1, out)
             ELSE IF end_on = Some(byte) THEN ParseOk(bytes_read + 1, out)
             ELSE IF in_hex
             THEN IF Len(encoded) < 2 THEN ParseErr("InvalidHexadecimal", out)
                  ELSE Pair(decode_hex_nibble(byte), decode_hex_nibble(encoded[2]))
             ELSE decode_bytes_loop(Tail(encoded), end_on, in_hex, bytes_read + 1,
                                    Append(out, byte))

\* decode_bytes(encoded, end_on, Vec::new())
decode_bytes(encoded, end_on) ==
    IF encoded # <<>> /\ encoded[1] = 35
    THEN decode_bytes_loop(Tail(encoded), end_on, TRUE, 1, <<>>)
    ELSE decode_bytes_loop(encoded, end_on, TRUE, 0, <<>>)

\* The longest string and the longest byte string rendered.
MaxText == 3

\* Chars: control characters with and without a named escape, the quote,
\* the backslash, letters, DEL and a two-byte char.
TextChars == {0, 7, 9, 10, 11, 13, 31, 32, 34, 92, 97, 120, 127, 233}

\* Bytes: printable ones (among them `#` and a hex digit), `;`, `|`, and
\* unprintable ones.
TextBytes == {0, 32, 35, 59, 97, 124, 126, 127, 255}

TextInputs ==
    {ValueString(str) : str \in SeqsUpTo(TextChars, MaxText)}
        \cup {ValueBytes(bs) : bs \in SeqsUpTo(TextBytes, MaxText)}

\* StringDisplay(input).to_string()
DisplayString ==
    /\ input.k = "String"
    /\ ~rendering.done
    /\ rendering' = Rendered(StringDisplay(input.v))
    /\ UNCHANGED <<input, parsed>>
    /\ UNCHANGED <<pipeline_vars, diffable_vars, compare_vars>>

\* decode_string(rendering, &mut decoded)
DecodeString ==
    /\ input.k = "String"
    /\ rendering.done
    /\ ~parsed.done
    /\ parsed' = decode_string(rendering.text)
    /\ UNCHANGED <<input, rendering>>
    /\ UNCHANGED <<pipeline_vars, diffable_vars, compare_vars>>

\* BytesDisplay(input).to_string()
DisplayBytes ==
    /\ input.k = "Bytes"
    /\ ~rendering.done
    /\ rendering' = Rendered(BytesDisplay(input.v))
    /\ UNCHANGED <<input, parsed>>
    /\ UNCHANGED <<pipeline_vars, diffable_vars, compare_vars>>

\* decode_bytes(rendering, end_on, &mut decoded), end_on None or Some(b';')
DecodeBytes ==
    /\ input.k = "Bytes"
    /\ rendering.done
    /\ ~parsed.done
    /\ \E end_on \in {None, Some(59)} : parsed' = decode_bytes(rendering.text, end_on)
    /\ UNCHANGED <<input, rendering>>
    /\ UNCHANGED <<pipeline_vars, diffable_vars, compare_vars>>

\* A string or a byte string is rendered and the rendering is parsed.
InitText ==
    /\ original = ValueNone
    /\ updated = ValueNone
    /\ stats = -1
    /\ logged = <<>>
    /\ diff = NoDiff
    /\ bytes = <<>>
    /\ decoded = NotDecoded
    /\ applied = NotApplied
    /\ pc = "text"
    /\ NoDiffable
    /\ input \in TextInputs
    /\ rendering = NotRendered
    /\ parsed = NotParsed
    /\ compared = NotCompared
    /\ value_read = NotRead

NextText == DisplayString \/ DecodeString \/ DisplayBytes \/ DecodeBytes

SpecText == InitText /\ [][NextText]_vars

----------------------------------------------------------------------------
(* Display for Diff, ValueDisplay, and the scenarios of the tests           *)

\* The f64 numbers 0.0 and 1.0.
F64_ZERO == <<0, 0, 0, 0, 0, 0, 0, 0>>
F64_ONE == <<0, 0, 0, 0, 0, 0, 240, 63>>

\* {index}, {length}, integer.fmt(f): the decimal digits.
RECURSIVE Digits(_)
Digits(n) == IF n < 10 THEN <<48 + n>> ELSE Digits(n \div 10) \o <<48 + (n % 10)>>
Decimal(i) == IF i < 0 THEN <<45>> \o Digits(-i) ELSE Digits(i)

\* float.fmt(f): the shortest decimal text that reads back as the number,
\* for the floats of the inputs.
FloatDisplay(float) ==
    CASE float = F64_ZERO -> Text(<<"0">>)
      [] float = F64_ONE -> Text(<<"1">>)
      [] float = F32_TENTH -> Text(<<"0", ".", "1">>)
      [] float = F32_NAN -> Text(<<"N", "a", "N">>)

\* f.write_char(',') before every element but the first
Separator(index) == IF index > 1 THEN <<44>> ELSE <<>>

\* ValueDisplay(value).to_string()
RECURSIVE ValueDisplay(_), SequenceDisplayFrom(_, _), MappingsDisplayFrom(_, _)
ValueDisplay(value) ==
    CASE value.k = "None" -> Text(<<"n", "o", "n", "e">>)
      [] value.k = "Unit" -> Text(<<"(", ")">>)
      [] value.k = "Bool" ->
            IF value.v THEN Text(<<"t", "r", "u", "e">>)
            ELSE Text(<<"f", "a", "l", "s", "e">>)
      [] value.k = "Integer" -> Decimal(value.v)
      [] value.k = "Float" -> FloatDisplay(value.v)
      [] value.k = "Bytes" -> BytesDisplay(value.v)
      [] value.k = "String" -> StringDisplay(value.v)
      [] value.k = "Sequence" -> <<91>> \o SequenceDisplayFrom(value.v, 1) \o <<93>>
      [] value.k = "Mappings" -> <<123>> \o MappingsDisplayFrom(value.v, 1) \o <<125>>
SequenceDisplayFrom(sequence, index) ==
    IF index > Len(sequence) THEN <<>>
    ELSE Separator(index) \o ValueDisplay(sequence[index])
             \o SequenceDisplayFrom(sequence, index + 1)
MappingsDisplayFrom(mappings, index) ==
    IF index > Len(mappings) THEN <<>>
    ELSE Separator(index) \o ValueDisplay(mappings[index][1]) \o <<58>>
             \o ValueDisplay(mappings[index][2])
             \o MappingsDisplayFrom(mappings, index + 1)

\* Change::Insert is written with {value}, the Display of pot::Value, not
\* with ValueDisplay: an integer is written in decimal; what the pot crate
\* writes for the other kinds is not part of this repository (Unrendered).
Unrendered == <<-1>>
PotValueDisplay(value) ==
    IF value.k = "Integer" THEN Decimal(value.v) ELSE Unrendered

\* "[@{index};" against "[{index};": the marker of a key sub-diff.
KeyMarker(key) == IF key THEN <<64>> ELSE <<>>

\* The opening of EnterSequence (bracket 91) and EnterMap (bracket 123).
EnterDisplay(bracket, index, key) ==
    IF index # None
    THEN <<bracket>> \o KeyMarker(key) \o Decimal(index[1]) \o <<59>>
    ELSE <<bracket, 59>>

\* Exit: stack.pop() closes the innermost level, `?` when there is none.
ExitDisplay(stack) ==
    IF stack = <<>> THEN <<63>>
    ELSE IF stack[Len(stack)] = "Sequence" THEN <<93>>
    ELSE <<125>>

\* One arm of the match in Display for Diff.
ChangeDisplay(change, stack) ==
    CASE change.change = "EnterSequence" -> EnterDisplay(91, change.index, change.key)
      [] change.change = "EnterMap" -> EnterDisplay(123, change.index, change.key)
      [] change.change = "Exit" -> ExitDisplay(stack)
      [] change.change = "Replace" ->
            IF change.index # None
            THEN <<126>> \o Decimal(change.index[1]) \o <<59>> \o ValueDisplay(change.value)
            ELSE <<126, 59>> \o ValueDisplay(change.value)
      [] change.change = "ReplaceKey" ->
            <<126, 64>> \o Decimal(change.index) \o <<59>> \o ValueDisplay(change.key)
      [] change.change = "ReplaceMapping" ->
            <<126>> \o Decimal(change.index) \o <<59>> \o ValueDisplay(change.key)
                \o <<59>> \o ValueDisplay(change.value)
      [] change.change = "Remove" ->
            <<45>> \o Decimal(change.index) \o <<59>> \o Decimal(change.length)
      [] change.change = "Truncate" -> <<36>> \o Decimal(change.length)
      [] change.change = "Insert" ->
            <<43>> \o Decimal(change.index) \o <<59>> \o PotValueDisplay(change.value)
      [] change.change = "InsertMapping" ->
            <<43>> \o Decimal(change.index) \o <<59>> \o ValueDisplay(change.key)
                \o <<59>> \o ValueDisplay(change.value)

\* The stack of Display for Diff after a change.
StackAfter(change, stack) ==
    IF change.change = "EnterSequence" THEN Append(stack, "Sequence")
    ELSE IF change.change = "EnterMap" THEN Append(stack, "Map")
    ELSE IF change.change = "Exit" /\ stack # <<>> THEN SubSeq(stack, 1, Len(stack) - 1)
    ELSE stack

\* diff.to_string(): the loop over self.changes.
RECURSIVE DiffDisplayFrom(_, _, _)
DiffDisplayFrom(changes, index, stack) ==
    IF index > Len(changes) THEN <<>>
    ELSE ChangeDisplay(changes[index], stack)
             \o DiffDisplayFrom(changes, index + 1, StackAfter(changes[index], stack))
DiffDisplay(changes) == DiffDisplayFrom(changes, 1, <<>>)

\* test(original, updated, diff_display)
Scenario(orig, upd, diff_display) ==
    [original |-> orig, updated |-> upd, diff_display |-> diff_display]

\* The calls of test in the tests of the repository.
Scenarios ==
    {
        \* basic_sequence_apply
        Scenario(ValueSequence(<<ValueInteger(1)>>),
                 ValueSequence(<<ValueInteger(1)>>),
                 Text(<<>>)),
        Scenario(ValueSequence(<<ValueInteger(1), ValueInteger(2)>>),
                 ValueSequence(<<ValueInteger(1), ValueInteger(2), ValueInteger(3)>>),
                 Text(<<"[", ";", "+", "2", ";", "3", "]">>)),
        Scenario(ValueSequence(<<ValueInteger(0), ValueInteger(1), ValueInteger(2), ValueInteger(3)>>),
                 ValueSequence(<<ValueInteger(2), ValueInteger(3)>>),
                 Text(<<"[", ";", "-", "0", ";", "2", "]">>)),
        Scenario(ValueSequence(<<ValueInteger(3), ValueInteger(4)>>),
                 ValueSequence(<<ValueInteger(1), ValueInteger(2), ValueInteger(3), ValueInteger(4)>>),
                 Text(<<"[", ";", "+", "0", ";", "1", "+", "1", ";", "2", "]">>)),
        Scenario(ValueSequence(<<ValueInteger(3), ValueInteger(4), ValueInteger(5)>>),
                 ValueSequence(<<ValueInteger(3), ValueInteger(4)>>),
                 Text(<<"[", ";", "$", "2", "]">>)),
        Scenario(ValueSequence(<<ValueSequence(<<ValueInteger(1), ValueInteger(2)>>), ValueSequence(<<ValueInteger(2), ValueInteger(3), ValueInteger(4)>>)>>),
                 ValueSequence(<<ValueSequence(<<ValueInteger(1), ValueInteger(2), ValueInteger(3)>>), ValueSequence(<<ValueInteger(2), ValueInteger(3), ValueInteger(4)>>)>>),
                 Text(<<"[", ";", "[", "0", ";", "+", "2", ";", "3", "]", "]">>)),
        Scenario(ValueSequence(<<ValueSequence(<<ValueInteger(1)>>), ValueSequence(<<ValueInteger(2), ValueInteger(3), ValueInteger(4)>>)>>),
                 ValueSequence(<<ValueSequence(<<ValueInteger(0)>>), ValueSequence(<<ValueInteger(2), ValueInteger(3), ValueInteger(4)>>)>>),
                 Text(<<"[", ";", "~", "0", ";", "[", "0", "]", "]">>)),
        \* map_sequence_apply
        Scenario(ValueMappings(<<<<ValueInteger(1), ValueInteger(2)>>>>),
                 ValueMappings(<<<<ValueInteger(1), ValueInteger(2)>>, <<ValueInteger(3), ValueInteger(4)>>>>),
                 Text(<<"{", ";", "+", "1", ";", "3", ";", "4", "}">>)),
        Scenario(ValueMappings(<<<<ValueInteger(1), ValueInteger(2)>>>>),
                 ValueMappings(<<<<ValueInteger(1), ValueInteger(3)>>>>),
                 Text(<<"{", ";", "~", "0", ";", "3", "}">>)),
        Scenario(ValueMappings(<<<<ValueInteger(1), ValueSequence(<<ValueInteger(1), ValueInteger(3)>>)>>>>),
                 ValueMappings(<<<<ValueInteger(1), ValueSequence(<<ValueInteger(2), ValueInteger(3)>>)>>>>),
                 Text(<<"{", ";", "[", "0", ";", "~", "0", ";", "2", "]", "}">>)),
        Scenario(ValueMappings(<<<<ValueInteger(1), ValueInteger(2)>>, <<ValueInteger(3), ValueInteger(4)>>>>),
                 ValueMappings(<<<<ValueInteger(3), ValueInteger(4)>>>>),
                 Text(<<"{", ";", "-", "0", ";", "1", "}">>)),
        Scenario(ValueMappings(<<<<ValueInteger(3), ValueInteger(4)>>>>),
                 ValueMappings(<<<<ValueInteger(1), ValueInteger(2)>>, <<ValueInteger(3), ValueInteger(4)>>>>),
                 Text(<<"{", ";", "+", "0", ";", "1", ";", "2", "}">>)),
        Scenario(ValueMappings(<<<<ValueInteger(1), ValueInteger(2)>>, <<ValueInteger(3), ValueInteger(4)>>>>),
                 ValueMappings(<<<<ValueInteger(1), ValueInteger(2)>>>>),
                 Text(<<"{", ";", "$", "1", "}">>)),
        Scenario(ValueMappings(<<<<ValueInteger(1), ValueInteger(2)>>, <<ValueInteger(4), ValueInteger(5)>>>>),
                 ValueMappings(<<<<ValueInteger(3), ValueInteger(4)>>, <<ValueInteger(4), ValueInteger(5)>>>>),
                 Text(<<"{", ";", "~", "0", ";", "3", ";", "4", "}">>)),
        Scenario(ValueMappings(<<<<ValueInteger(1), ValueInteger(2)>>>>),
                 ValueMappings(<<<<ValueInteger(3), ValueInteger(4)>>>>),
                 Text(<<"~", ";", "{", "3", ":", "4", "}">>)),
        Scenario(ValueMappings(<<<<ValueSequence(<<ValueInteger(1), ValueInteger(3), ValueInteger(4)>>), ValueSequence(<<ValueInteger(3), ValueInteger(4)>>)>>>>),
                 ValueMappings(<<<<ValueSequence(<<ValueInteger(2), ValueInteger(3), ValueInteger(4)>>), ValueSequence(<<ValueInteger(3), ValueInteger(4)>>)>>>>),
                 Text(<<"{", ";", "[", "@", "0", ";", "~", "0", ";", "2", "]", "}">>)),
        Scenario(ValueMappings(<<<<ValueSequence(<<ValueInteger(1), ValueInteger(3), ValueInteger(4)>>), ValueSequence(<<ValueInteger(3), ValueInteger(4)>>)>>>>),
                 ValueMappings(<<<<ValueSequence(<<ValueInteger(2)>>), ValueSequence(<<ValueInteger(3), ValueInteger(4)>>)>>>>),
                 Text(<<"{", ";", "~", "@", "0", ";", "[", "2", "]", "}">>)),
        \* root_operations
        Scenario(ValueInteger(1),
                 ValueInteger(2),
                 Text(<<"~", ";", "2">>)),
        Scenario(ValueBool(TRUE),
                 ValueNone,
                 Text(<<"~", ";", "n", "o", "n", "e">>)),
        Scenario(ValueBool(TRUE),
                 ValueBool(FALSE),
                 Text(<<"~", ";", "f", "a", "l", "s", "e">>)),
        Scenario(ValueFloat(F64_ZERO),
                 ValueFloat(F64_ONE),
                 Text(<<"~", ";", "1">>)),
        Scenario(ValueBytes(<<104, 101, 108, 108, 111>>),
                 ValueBytes(<<119, 111, 114, 108, 221>>),
                 Text(<<"~", ";", "#", "|", "w", "o", "r", "l", "|", "d", "d">>)),
        Scenario(ValueString(Text(<<"h", "e", "l", "l", "o">>)),
                 ValueString(Text(<<"w", "o", "r", "l", "d">>)),
                 Text(<<"~", ";", "\"", "w", "o", "r", "l", "d", "\"">>)),
        Scenario(ValueSequence(<<ValueInteger(0), ValueInteger(1), ValueInteger(2), ValueInteger(3), ValueInteger(4), ValueInteger(5), ValueInteger(6), ValueInteger(7)>>),
                 ValueSequence(<<ValueInteger(1), ValueInteger(7)>>),
                 Text(<<"~", ";", "[", "1", ",", "7", "]">>))
    }

\* diff.to_string()
to_string ==
    /\ pc \in {"diffed", "applied"}
    /\ ~diff.panic
    /\ ~rendering.done
    /\ rendering' = Rendered(DiffDisplay(diff.changes))
    /\ UNCHANGED <<input, parsed>>
    /\ UNCHANGED <<pipeline_vars, diffable_vars, compare_vars>>

\* test: the diff between the two values of a scenario is taken, written as
\* text and applied.
InitScenario ==
    /\ \E scenario \in Scenarios :
          /\ original = scenario.original
          /\ updated = scenario.updated
    /\ stats = -1
    /\ logged = <<>>
    /\ diff = NoDiff
    /\ bytes = <<>>
    /\ decoded = NotDecoded
    /\ applied = NotApplied
    /\ pc = "start"
    /\ NoDiffable
    /\ NoText

NextScenario == Between \/ to_string \/ Apply

SpecScenario == InitScenario /\ [][NextScenario]_vars

----------------------------------------------------------------------------
(* Estimated == Value, called on its own                                   *)

\* Estimated::from(updated) == original
Compare ==
    /\ pc = "compare"
    /\ ~compared.done
    /\ compared' = [done |-> TRUE, equal |-> EstimatedEq(updated, original)]
    /\ UNCHANGED <<pipeline_vars, diffable_vars, text_vars, value_read>>

\* An Estimated and a Value are compared.
InitCompare ==
    /\ original \in Values
    /\ updated \in Values
    /\ stats = -1
    /\ logged = <<>>
    /\ diff = NoDiff
    /\ bytes = <<>>
    /\ decoded = NotDecoded
    /\ applied = NotApplied
    /\ pc = "compare"
    /\ NoDiffable
    /\ NoText

NextCompare == Compare

SpecCompare == InitCompare /\ [][NextCompare]_vars

----------------------------------------------------------------------------
(* binary::read_value, called on its own                                   *)

\* The payloads of the Bytes atoms read: ASCII, a two-byte UTF-8 char
\* (195 169), and bytes that are not UTF-8 (a lone 195, 255).
PayloadBytes == {97, 169, 195, 255}
MaxPayload == 2

\* The values written for read_value: sequences and mappings of integers,
\* of 0 to MaxLen elements, sequences of one-byte atoms and of composites,
\* and byte strings.
EmbeddedValues ==
    IntSeqs \cup IntMaps
        \cup {ValueSequence(<<c>>) : c \in Children}
        \cup {ValueSequence(<<ValueNone>>), ValueSequence(<<ValueUnit, ValueBool(TRUE)>>),
              ValueMappings(<<<<ValueNone, ValueUnit>>>>)}
        \cup {ValueBytes(bs) : bs \in SeqsUpTo(PayloadBytes, MaxPayload)}

\* Where the atom sits: at the end of the buffer, before one more byte, or
\* cut short (a proper prefix that holds at least the first byte).
Placements(written) ==
    {written, written \o <<0>>}
        \cup {SubSeq(written, 1, n) : n \in 1..(Len(written) - 1)}

\* Symbol atoms, at the end of the buffer or before one more byte.
SymbolAtoms ==
    {write_atom_header(KIND_SYMBOL, arg) \o rest : arg \in {0, 1}, rest \in {<<>>, <<0>>}}

\* read_value(&mut SliceReader::from(bytes))
ReadValue ==
    /\ pc = "value"
    /\ ~value_read.done
    /\ value_read' = [done |-> TRUE, result |-> read_value(bytes)]
    /\ UNCHANGED <<pipeline_vars, diffable_vars, text_vars, compared>>

\* A value is written with write_value, placed in a buffer, and read.
InitValue ==
    /\ original = ValueNone
    /\ updated = ValueNone
    /\ stats = -1
    /\ logged = <<>>
    /\ diff = NoDiff
    /\ \/ /\ input \in EmbeddedValues
          /\ bytes \in Placements(write_value(input))
       \/ /\ input = ValueNone
          /\ bytes \in SymbolAtoms
    /\ decoded = NotDecoded
    /\ applied = NotApplied
    /\ pc = "value"
    /\ NoDiffable
    /\ rendering = NotRendered
    /\ parsed = NotParsed
    /\ compared = NotCompared
    /\ value_read = NotRead

NextValue == ReadValue

SpecValue == InitValue /\ [][NextValue]_vars

----------------------------------------------------------------------------
(* Diff::apply_to_value on scripts that descend                            *)

\* The largest index and length of the changes applied.
MaxIndex == 2

\* The changes a sequence context recognizes, and those of a mapping context.
SequenceChanges ==
    {Replace(Some(i), ValueInteger(9)) : i \in 0..MaxIndex}
        \cup {Remove(i, n) : i \in 0..MaxIndex, n \in 0..MaxIndex}
        \cup {Truncate(n) : n \in 0..MaxIndex}
        \cup {Insert(i, ValueInteger(9)) : i \in 0..MaxIndex}
MappingChanges ==
    {ReplaceMapping(i, ValueInteger(8), ValueInteger(9)) : i \in 0..MaxIndex}
        \cup {Replace(Some(i), ValueInteger(9)) : i \in 0..MaxIndex}
        \cup {ReplaceKey(i, ValueInteger(8)) : i \in 0..MaxIndex}
        \cup {Remove(i, n) : i \in 0..MaxIndex, n \in 0..MaxIndex}
        \cup {Truncate(n) : n \in 0..MaxIndex}
        \cup {InsertMapping(i, ValueInteger(8), ValueInteger(9)) : i \in 0..MaxIndex}

\* The changes that follow an Exit, or that are applied two levels down.
LaterSequenceChanges == {Truncate(1), Insert(0, ValueInteger(7))}
LaterMappingChanges == {Truncate(1), ReplaceKey(0, ValueInteger(7))}

\* One change in the root; one change in a child of the root; a change in a
\* child, an Exit, and a change in the root; a change two levels down.
ApplyScripts ==
    {<<EnterSequence(None, FALSE), c>> : c \in SequenceChanges}
        \cup {<<EnterMap(None, FALSE), c>> : c \in MappingChanges}
        \cup {<<EnterSequence(None, FALSE), EnterSequence(Some(i), FALSE), c>> :
                 i \in 0..1, c \in SequenceChanges}
        \cup {<<EnterSequence(None, FALSE), EnterMap(Some(i), FALSE), c>> :
                 i \in 0..1, c \in MappingChanges}
        \cup {<<EnterMap(None, FALSE), EnterSequence(Some(i), key), c>> :
                 i \in 0..1, key \in BOOLEAN, c \in SequenceChanges}
        \cup {<<EnterMap(None, FALSE), EnterMap(Some(i), key), c>> :
                 i \in 0..1, key \in BOOLEAN, c \in MappingChanges}
        \cup {<<EnterSequence(None, FALSE), EnterSequence(Some(0), FALSE), c, Exit, d>> :
                 c \in LaterSequenceChanges, d \in SequenceChanges}
        \cup {<<EnterMap(None, FALSE), EnterMap(Some(1), key), c, Exit, d>> :
                 key \in BOOLEAN, c \in LaterMappingChanges, d \in MappingChanges}
        \cup {<<EnterSequence(None, FALSE), EnterSequence(Some(0), FALSE),
                EnterMap(Some(1), FALSE), c>> : c \in MappingChanges}
        \cup {<<EnterSequence(None, FALSE), EnterSequence(Some(0), FALSE),
                EnterMap(Some(1), FALSE), c, Exit, d, Exit, e>> :
                 c \in LaterMappingChanges, d \in LaterSequenceChanges,
                 e \in LaterSequenceChanges}

\* [1, 2]; [[1, {1: 2, 2: 1}], {1: 2}, 3]; {1: 2, 2: 1};
\* {[1, 2]: [3], {1: 2}: {2: 1, 1: 1}}
ApplyTargets ==
    {ValueSequence(<<ValueInteger(1), ValueInteger(2)>>),
     ValueSequence(<<
         ValueSequence(<<ValueInteger(1),
                         ValueMappings(<<<<ValueInteger(1), ValueInteger(2)>>,
                                         <<ValueInteger(2), ValueInteger(1)>>>>)>>),
         ValueMappings(<<<<ValueInteger(1), ValueInteger(2)>>>>),
         ValueInteger(3)>>),
     ValueMappings(<<<<ValueInteger(1), ValueInteger(2)>>,
                     <<ValueInteger(2), ValueInteger(1)>>>>),
     ValueMappings(<<
         <<ValueSequence(<<ValueInteger(1), ValueInteger(2)>>),
           ValueSequence(<<ValueInteger(3)>>)>>,
         <<ValueMappings(<<<<ValueInteger(1), ValueInteger(2)>>>>),
           ValueMappings(<<<<ValueInteger(2), ValueInteger(1)>>,
                           <<ValueInteger(1), ValueInteger(1)>>>>)>>>>)}

\* A script that descends is applied to a value.
InitApply ==
    /\ original \in ApplyTargets
    /\ updated = ValueNone
    /\ stats = -1
    /\ logged = <<>>
    /\ diff \in {[panic |-> FALSE, changes |-> script] : script \in ApplyScripts}
    /\ bytes = <<>>
    /\ decoded = NotDecoded
    /\ applied = NotApplied
    /\ pc = "diffed"
    /\ NoDiffable
    /\ NoText

NextApply == Apply

SpecApply == InitApply /\ [][NextApply]_vars

----------------------------------------------------------------------------
(* Diffable                                                                *)

\* The values a Diffable holds: an integer, sequences, mappings, and a
\* sequence that holds a mapping.
HolderValues ==
    {ValueInteger(1),
     ValueSequence(<<>>),
     ValueSequence(<<ValueInteger(1)>>),
     ValueSequence(<<ValueInteger(1), ValueInteger(2)>>),
     ValueSequence(<<ValueInteger(2), ValueInteger(1), ValueInteger(2)>>),
     ValueMappings(<<>>),
     ValueMappings(<<<<ValueInteger(1), ValueInteger(2)>>>>),
     ValueMappings(<<<<ValueInteger(1), ValueInteger(1)>>>>),
     ValueMappings(<<<<ValueInteger(2), ValueInteger(1)>>,
                     <<ValueInteger(1), ValueInteger(1)>>>>),
     ValueSequence(<<ValueMappings(<<>>)>>),
     ValueSequence(<<ValueMappings(<<<<ValueInteger(1), ValueInteger(2)>>>>)>>),
     ValueSequence(<<ValueFloat(F32_TENTH)>>)}

\* The variant that keeps the old snapshot.
LatestKept(latest, serialized) == latest

\* `self.latest = updated;` (updated is the serialized active value)
LatestAfterDiff(latest, serialized) == serialized

\* Diffable::diff: the Diffable after the call, what the call returns, and
\* whether between_values panicked (before latest is assigned).
DiffableDiff(self) ==
    LET Return(computed) ==
            IF computed.panic
            THEN [self |-> [self EXCEPT !.dirty = FALSE],
                  returned |-> None, panic |-> TRUE]
            ELSE [self |-> [self EXCEPT !.dirty = FALSE,
                                        !.latest = LatestAfterDiff(self.latest,
                                                                   self.active)],
                  returned |-> IF computed.changes = <<>> THEN None
                               ELSE Some(computed.changes),
                  panic |-> FALSE]
    IN  IF self.dirty THEN Return(between_values(self.latest, self.active))
        ELSE [self |-> self, returned |-> None, panic |-> FALSE]

\* What the receiver holds after a diff() call: it applies a Some(diff) to
\* its value and does nothing on None.  A failed apply ends the run.
Receive(value, result) ==
    LET Applied(outcome) ==
            IF outcome.status = "Ok" THEN [ok |-> TRUE, value |-> outcome.value]
            ELSE [ok |-> FALSE, value |-> value]
    IN  IF result = None THEN [ok |-> TRUE, value |-> value]
        ELSE Applied(apply_to_value(result[1], value))

\* Deref::deref: a shared borrow.
DerefCall ==
    /\ last.op # "panic"
    /\ last' = Operation("deref", diffable.dirty)
    /\ returned' = None
    /\ UNCHANGED <<diffable, replica>>
    /\ UNCHANGED <<pipeline_vars, text_vars, compare_vars>>

\* DerefMut::deref_mut, and what the borrower writes through it (possibly
\* the value that is there).
DerefMutCall ==
    /\ last.op # "panic"
    /\ \E value \in HolderValues :
          diffable' = [diffable EXCEPT !.dirty = TRUE, !.active = value]
    /\ last' = Operation("deref_mut", diffable.dirty)
    /\ returned' = None
    /\ UNCHANGED replica
    /\ UNCHANGED <<pipeline_vars, text_vars, compare_vars>>

\* Diffable::diff, and the receiver applying what it returns.
DiffCall ==
    /\ last.op # "panic"
    /\ LET Step(result) ==
               LET Got(received) ==
                       /\ diffable' = result.self
                       /\ returned' = result.returned
                       /\ replica' = received.value
                       /\ last' = Operation(IF result.panic \/ ~received.ok
                                            THEN "panic" ELSE "diff",
                                            diffable.dirty)
               IN  Got(Receive(replica, result.returned))
       IN  Step(DiffableDiff(diffable))
    /\ UNCHANGED <<pipeline_vars, text_vars, compare_vars>>

\* A Diffable is made of a value that the receiver has too; it is then
\* borrowed, mutated and asked for diffs in any order.
InitDiffable ==
    /\ original = ValueNone
    /\ updated = ValueNone
    /\ stats = -1
    /\ logged = <<>>
    /\ diff = NoDiff
    /\ bytes = <<>>
    /\ decoded = NotDecoded
    /\ applied = NotApplied
    /\ pc = "diffable"
    /\ \E value \in HolderValues :
          /\ diffable = DiffableNew(value)
          /\ replica = value
    /\ returned = None
    /\ last = Operation("new", FALSE)
    /\ NoText

NextDiffable == DerefCall \/ DerefMutCall \/ DiffCall

SpecDiffable == InitDiffable /\ [][NextDiffable]_vars

----------------------------------------------------------------------------
(* Properties                                                              *)

\* C1: applying between_values(original, updated) to original returns
\* Ok(updated), for every pair of value trees without a NaN float.
ApplyCorrectness ==
    (pc = "applied" /\ ~HasNaN(original) /\ ~HasNaN(updated)) =>
        applied = ApplyOk(updated)

\* C2: the encoding of between_values(original, updated) decodes without
\* a DecodeError, and the decoded script applied to original yields updated.
DecodedApplyCorrectness ==
    /\ pc = "decoded" => decoded.ok
    /\ pc = "reapplied" => applied = ApplyOk(updated)

\* C3: for every script, decode(encode(script)) is Ok of an equal script.
SerializationRoundTrip ==
    pc = "decoded" => decoded.ok /\ decoded.changes = diff.changes

\* What the pipeline shows of an empty diff: no framing and no change is
\* logged and the script is empty; its encoding decodes to the empty
\* script; applying either to the original returns the original.
EmptyDiffOutcome ==
    /\ pc # "start" => logged = <<>> /\ diff = NoDiff
    /\ pc \in {"applied", "encoded", "decoded"} => applied = ApplyOk(original)
    /\ pc \in {"decoded", "reapplied"} => decoded.ok /\ decoded.changes = <<>>
    /\ pc = "reapplied" => applied = ApplyOk(original)

\* C4, as stated: for every value tree v, between_values(v, v) is the empty
\* script, which round-trips through the codec and applies to v as v.
EmptyDiffRoundTrip == original = updated => EmptyDiffOutcome

\* C4, for the value trees that hold no NaN float: between_values(v, v) is
\* the empty script, which round-trips through the codec and applies to v
\* as v.
EmptyDiffRoundTripWithoutNaN ==
    (original = updated /\ ~HasNaN(original)) => EmptyDiffOutcome

\* A nested sequence went through the whole pipeline against itself.
EmptyDiffWitness ==
    /\ original = updated
    /\ original \in NestedSeqs
    /\ pc = "reapplied"
    /\ bytes = <<VERSION, 0>>

SizeBound ==
    (pc # "start" /\ ~diff.panic) =>
        /\ Counter(logged) <= estimated_bytes(updated) + 1
        /\ stats > estimated_bytes(updated) => diff.changes = <<Replace(None, updated)>>

\* Two sequences whose structural diff measured larger than the updated
\* one: the root Replace was emitted, at the bound.
SizeBoundWitness ==
    /\ pc = "diffed"
    /\ original.k = "Sequence" /\ updated.k = "Sequence"
    /\ stats > estimated_bytes(updated)
    /\ diff.changes = <<Replace(None, updated)>>
    /\ Counter(logged) = estimated_bytes(updated) + 1

\* C7: apply_to_value never aborts, and it returns an error when the first
\* change is none of those recognized at the root of the value (a root
\* Replace, a root EnterSequence on a sequence, a root EnterMap on a
\* mapping); more generally, whenever a change is unrecognized or its
\* precondition fails.
StructuralErrors ==
    pc = "applied" =>
        /\ applied.status # "Panic"
        /\ (/\ diff.changes # <<>>
            /\ ~(diff.changes[1].change = "Replace" /\ diff.changes[1].index = None)
            /\ ~(diff.changes[1] = EnterSequence(None, FALSE) /\ original.k = "Sequence")
            /\ ~(diff.changes[1] = EnterMap(None, FALSE) /\ original.k = "Mappings"))
                => applied.status = "Err"

\* C8: a script that starts with a root Replace is applied with Ok(value)
\* only when no change follows it.
RootReplaceProtocol ==
    (/\ pc = "applied"
     /\ diff.changes # <<>>
     /\ diff.changes[1].change = "Replace"
     /\ diff.changes[1].index = None) =>
        /\ applied.status = "Ok" <=> Len(diff.changes) = 1
        /\ Len(diff.changes) = 1 => applied = ApplyOk(diff.changes[1].value)

\* C9: decode of a non-empty buffer returns UnsupportedVersion exactly when
\* one of the low seven bits of the first byte is set.
VersionRejection ==
    (pc = "decoded" /\ bytes # <<>>) =>
        (decoded.error = "UnsupportedVersion" <=> (bytes[1] % 128) # 0)

\* A buffer that starts with 0x80 was decoded to a script of one change.
TopBitAccepted ==
    /\ pc = "decoded"
    /\ bytes # <<>> /\ bytes[1] = 128
    /\ decoded.ok
    /\ Len(decoded.changes) = 1

\* C10: under an accepted version byte, a count above the bytes that
\* remain after it makes decode return InvalidData at the sanity check with
\* no change read, and a count up to the remaining bytes is not rejected
\* by the sanity check.
BoundedAllocation ==
    (/\ pc = "decoded"
     /\ bytes # <<>>
     /\ (bytes[1] % 128) = 0
     /\ decode_variable(Tail(bytes)).ok) =>
        LET count == decode_variable(Tail(bytes)) IN
        /\ count.value > Len(count.rest) =>
              /\ decoded.stage = "sanity"
              /\ decoded.error = "InvalidData"
              /\ decoded.read = 0
        /\ count.value <= Len(count.rest) => decoded.stage # "sanity"

\* A buffer that declares more changes than the bytes that follow, which
\* are some, was rejected.
CountAboveRemaining ==
    /\ pc = "decoded"
    /\ decoded.stage = "sanity"
    /\ decoded.remaining >= 1
    /\ decoded.count > decoded.remaining

\* The buffer was decoded up to its first change: the version was accepted
\* and the count was read and passed the sanity check with a change to read.
FirstChangeReached ==
    /\ pc = "decoded"
    /\ decoded.stage \in {"change", "done"}
    /\ decoded.count >= 1
    /\ decoded.remaining >= 1

\* The change byte of the first change: the first of the bytes that
\* remained after the count.
FirstChangeByte == bytes[Len(bytes) - decoded.remaining + 1]

\* decode returned InvalidData at the first change.
FirstChangeInvalid ==
    /\ decoded.stage = "change"
    /\ decoded.error = "InvalidData"
    /\ decoded.read = 0

\* C11: a change byte of variant 3 decodes to Replace when KEY and MAPPING
\* are clear (with no index exactly when ROOT is set), to ReplaceKey for
\* KEY alone, to ReplaceMapping for MAPPING alone, and is InvalidData for
\* every other combination of the three flags; a change byte of variant
\* 7..15 is InvalidData.
ChangeByteValidation ==
    FirstChangeReached =>
        LET header == FirstChangeByte
            key == check_bit(header, KEY_FLAG)
            is_root == check_bit(header, ROOT_FLAG)
            is_mapping == check_bit(header, MAPPING_FLAG)
            Read(name) == decoded.ok => decoded.changes[1].change = name
        IN
        /\ (header \div 16 = REPLACE /\ ~key /\ ~is_mapping) =>
              /\ Read("Replace")
              /\ decoded.ok => (decoded.changes[1].index = None <=> is_root)
        /\ (header \div 16 = REPLACE /\ ~is_root /\ key /\ ~is_mapping) =>
              Read("ReplaceKey")
        /\ (header \div 16 = REPLACE /\ ~is_root /\ ~key /\ is_mapping) =>
              Read("ReplaceMapping")
        /\ (/\ header \div 16 = REPLACE
            /\ (key \/ is_mapping)
            /\ (is_root \/ (key /\ is_mapping))) => FirstChangeInvalid
        /\ header \div 16 >= 7 => FirstChangeInvalid

\* A change byte with KEY alone was decoded to a ReplaceKey, and the bytes
\* after it were enough for the KEY and MAPPING combination to be read
\* had it been accepted.
ReplaceKeyDecoded ==
    /\ FirstChangeReached
    /\ FirstChangeByte = REPLACE * 16 + KEY_FLAG
    /\ decoded.ok
    /\ decoded.changes = <<ReplaceKey(0, ValueNone)>>


\* C12: immediately after each diff() call, the replica that applied
\* every returned Some(diff) in order equals the inner value of the
\* Diffable.
ReplicaSynchronised ==
    last.op = "diff" => replica = diffable.active

\* C13: new() starts clean; only a mutable borrow sets the dirty flag and a
\* shared borrow changes nothing; diff() on a clean Diffable returns None
\* and leaves it as it is; diff() on a dirty one clears the flag, makes the
\* current value the snapshot and returns None exactly when the computed
\* script is empty; a diff() call right after a diff() call returns None.
DirtyFlagProtocol ==
    /\ last.op = "new" => ~diffable.dirty
    /\ [][/\ (diffable'.dirty /\ ~diffable.dirty) => last'.op = "deref_mut"
          /\ last'.op = "deref" => diffable' = diffable
          /\ (last'.op = "diff" /\ ~diffable.dirty) =>
                /\ returned' = None
                /\ diffable' = diffable
          /\ (last'.op = "diff" /\ diffable.dirty) =>
                /\ ~diffable'.dirty
                /\ diffable'.latest = diffable.active
                /\ diffable'.active = diffable.active
                /\ returned' = None <=>
                      between_values(diffable.latest, diffable.active).changes = <<>>
          /\ (last.op = "diff" /\ last'.op = "diff") => returned' = None
       ]_vars

\* diff() found the Diffable dirty after a mutable borrow that changed the
\* value: it returned a script, cleared the flag and took the snapshot.
DirtyDiffReturned ==
    /\ last = Operation("diff", TRUE)
    /\ returned # None
    /\ ~diffable.dirty
    /\ diffable.latest = diffable.active

\* The times the rendering of a byte string changes mode: it enters the
\* ASCII mode at a run of two or more printable bytes and leaves it at the
\* unprintable byte that ends the run.
ModeSwitches(bs) ==
    LET Printable(i) == bs[i] >= 32 /\ bs[i] < 127 /\ bs[i] \notin {59, 124}
        InRun(i) == /\ Printable(i)
                    /\ \/ (i > 1 /\ Printable(i - 1))
                       \/ (i < Len(bs) /\ Printable(i + 1))
    IN  Cardinality({i \in 1..Len(bs) : InRun(i) /\ (i = 1 \/ ~InRun(i - 1))})
        + Cardinality({i \in 2..Len(bs) : ~InRun(i) /\ InRun(i - 1)})

\* There is a named escape for the char.
NamedEscape(ch) == ch \in {0, 9, 10, 13, 34, 92}

\* C14: decode_string of the rendering of a string succeeds, yields the
\* string and reports the whole length of the rendering as consumed; a
\* control character that has no named escape is rendered as \x and its
\* two hexadecimal digits.
StringRoundTrip ==
    /\ (input.k = "String" /\ parsed.done) =>
          /\ parsed.ok
          /\ parsed.out = input.v
          /\ parsed.bytes_read = str_len(rendering.text)
    /\ (/\ input.k = "String"
        /\ rendering.done
        /\ Len(input.v) = 1
        /\ input.v[1] < 32
        /\ ~NamedEscape(input.v[1])) =>
          rendering.text = <<34, 92, 120, LowerHex(input.v[1] \div 16),
                             LowerHex(input.v[1] % 16), 34>>

\* C15: decode_bytes of the rendering of a byte string, with end_on None or
\* `;`, yields the byte string; the rendering never holds `;`, and holds
\* `|` only where the mode changes (the raw chars of the ASCII mode are
\* neither).
BytesRoundTrip ==
    /\ (input.k = "Bytes" /\ parsed.done) =>
          /\ parsed.ok
          /\ parsed.out = input.v
    /\ (input.k = "Bytes" /\ rendering.done) =>
          /\ \A i \in 1..Len(rendering.text) : rendering.text[i] # 59
          /\ Cardinality({i \in 1..Len(rendering.text) : rendering.text[i] = 124})
                = ModeSwitches(input.v)

\* A byte string that has `;` and `|` next to printable bytes went through
\* both modes and was read back.
BytesBothModes ==
    /\ input = ValueBytes(<<97, 97, 59>>)
    /\ rendering.text = <<35, 124, 97, 97, 124, 51, 98>>
    /\ parsed.ok
    /\ parsed.out = input.v

\* The diff_display the tests list for a pair of values.
Expected(orig, upd) ==
    (CHOOSE scenario \in Scenarios :
        scenario.original = orig /\ scenario.updated = upd).diff_display

\* C16: for each (original, updated) pair of the tests of the repository
\* (the rows of the scenario table are among them), the text of
\* between(original, updated) is exactly the listed text.  (between_values
\* strips the trailing Exits, so the text of a diff that descends has no
\* closing bracket at its end: "[;+2;3" where "[;+2;3]" is listed.)
ScenarioConformance ==
    rendering.done => rendering.text = Expected(original, updated)

\* Deep structural equality: the same kind and equal content; two
\* sequences, and two mappings, are equal iff they have the same number of
\* elements (pairs) and are pairwise equal in order.
RECURSIVE StructurallyEqual(_, _)
StructurallyEqual(a, b) ==
    IF a.k # b.k THEN FALSE
    ELSE IF a.k = "Float" THEN FloatEq(a.v, b.v)
    ELSE IF a.k = "Sequence"
    THEN /\ Len(a.v) = Len(b.v)
         /\ \A i \in 1..Len(a.v) : StructurallyEqual(a.v[i], b.v[i])
    ELSE IF a.k = "Mappings"
    THEN /\ Len(a.v) = Len(b.v)
         /\ \A i \in 1..Len(a.v) :
               /\ StructurallyEqual(a.v[i][1], b.v[i][1])
               /\ StructurallyEqual(a.v[i][2], b.v[i][2])
    ELSE a.v = b.v

\* C17: the equality between an Estimated node and a Value holds iff the
\* two are deeply structurally equal, mappings of different lengths being
\* unequal at every nesting depth.
DeepStructuralEquality ==
    compared.done => (compared.equal <=> StructurallyEqual(updated, original))

\* The stream the module documentation of binary describes, less its last
\* four bytes: the version byte, the number of changes as a variable
\* integer, and the changes with no padding.
DocumentedPrefix(changes) ==
    <<VERSION>> \o encode_variable(Len(changes)) \o encode_changes(changes)

\* C18: the stream written by encode is the version byte, the change count
\* and the packed changes, followed by four more bytes (a CRC32 of the
\* diff, whatever its value).
ChecksumTrailer ==
    pc \in {"encoded", "decoded", "reapplied"} =>
        /\ Len(bytes) = Len(DocumentedPrefix(diff.changes)) + 4
        /\ SubSeq(bytes, 1, Len(bytes) - 4) = DocumentedPrefix(diff.changes)

\* The entries create_map_diff aligns, found by following its two cursors
\* over the original pairs (original_index entries consumed) and the
\* updated pairs (updated_index entries popped): the position of the
\* original entry, of the updated entry, and the index the entry has in the
\* result (insert_index).  found is "original" when the updated key was
\* found at or after the original cursor (the first search), "updated" when
\* the original key was found later in the remaining updated entries (the
\* second search), and "cursor" when neither search found a key and the
\* updated entry stands for the original entry at the cursor.
RECURSIVE Alignments(_, _, _, _, _)
Alignments(original_values, updated_values, original_index, updated_index, insert_index) ==
    IF updated_index >= Len(updated_values) THEN {}
    ELSE IF original_index >= Len(original_values)
    THEN Alignments(original_values, updated_values, original_index,
                       updated_index + 1, insert_index + 1)
    ELSE
    LET entry == updated_values[updated_index + 1]
        orig == original_values[original_index + 1]
        in_original ==
            FirstIndex(MapMatchesInOriginal(original_values, original_index, entry))
        in_updated ==
            FirstIndex({k \in 0..(Len(updated_values) - updated_index - 2) :
                           EstimatedEq(updated_values[updated_index + 2 + k][1], orig[1])})
    IN  IF in_original >= 0
        THEN {[found |-> "original",
               original |-> original_index + in_original + 1,
               updated |-> updated_index + 1,
               index |-> insert_index]}
             \cup Alignments(original_values, updated_values,
                      original_index + in_original + 1, updated_index + 1,
                      insert_index + 1)
        ELSE IF in_updated >= 0
        THEN {[found |-> "updated",
               original |-> original_index + 1,
               updated |-> updated_index + in_updated + 2,
               index |-> insert_index + in_updated + 1]}
             \cup Alignments(original_values, updated_values,
                      original_index + 1, updated_index + in_updated + 2,
                      insert_index + in_updated + 2)
        ELSE {[found |-> "cursor",
               original |-> original_index + 1,
               updated |-> updated_index + 1,
               index |-> insert_index]}
             \cup Alignments(original_values, updated_values, original_index + 1,
                      updated_index + 1, insert_index + 1)

\* The nesting depth a script is at before its change at position i, the
\* root being depth 0.
DepthBefore(changes, i) ==
    Cardinality({j \in 1..(i - 1) : changes[j].change \in {"EnterSequence", "EnterMap"}})
        - Cardinality({j \in 1..(i - 1) : changes[j] = Exit})

\* The diff of two root mappings descended into the mapping.
RootMapDiff ==
    /\ pc # "start"
    /\ ~diff.panic
    /\ original.k = "Mappings"
    /\ updated.k = "Mappings"
    /\ diff.changes # <<>>
    /\ diff.changes[1] = EnterMap(None, FALSE)

\* The script changes the value of the root entry at index: a
\* Replace{index, value} or a sub-diff entered at that index, not as a key.
ValueChangedAt(index, value) ==
    \E i \in 2..Len(diff.changes) :
        /\ DepthBefore(diff.changes, i) = 1
        /\ \/ diff.changes[i] = Replace(Some(index), value)
           \/ diff.changes[i] = EnterSequence(Some(index), FALSE)
           \/ diff.changes[i] = EnterMap(Some(index), FALSE)

\* C19: in a mapping diff, whenever an updated entry is aligned with an
\* original entry because their keys match and the two values differ, the
\* script holds a change for the value of that entry: a Replace{index,
\* value} at its position or a sub-diff entered at that index.
MatchedValueChanges ==
    RootMapDiff =>
        \A aligned \in Alignments(original.v, updated.v, 0, 0, 0) :
            /\ aligned.found \in {"original", "updated"}
            /\ ~StructurallyEqual(updated.v[aligned.updated][2],
                                  original.v[aligned.original][2])
            => ValueChangedAt(aligned.index, updated.v[aligned.updated][2])

\* The changes of the script that change only the key of the root entry at
\* an index: a ReplaceKey{index, key} or a sub-diff entered at that index as
\* a key.  The set of these indexes.
KeyChanges ==
    {diff.changes[i].index[1] : i \in
        {i \in 2..Len(diff.changes) :
            /\ DepthBefore(diff.changes, i) = 1
            /\ diff.changes[i].change \in {"EnterSequence", "EnterMap"}
            /\ diff.changes[i].key}}
    \cup {diff.changes[i].index : i \in
        {i \in 2..Len(diff.changes) :
            /\ DepthBefore(diff.changes, i) = 1
            /\ diff.changes[i].change = "ReplaceKey"}}

\* C20: a ReplaceKey{index, key}, and likewise a key sub-diff framed by
\* Enter*{key: true}, is emitted only for an entry whose updated value is
\* structurally equal to the value of the original entry at that position.
KeyChangeOnlyForEqualValues ==
    RootMapDiff =>
        \A index \in KeyChanges :
            \E aligned \in Alignments(original.v, updated.v, 0, 0, 0) :
                /\ aligned.found = "cursor"
                /\ aligned.index = index
                /\ StructurallyEqual(updated.v[aligned.updated][2],
                                     original.v[aligned.original][2])

\* The buffer holds all of the written input, and what follows it.
WhollyPresent ==
    /\ Len(bytes) >= Len(write_value(input))
    /\ SubSeq(bytes, 1, Len(write_value(input))) = write_value(input)
Following == SubSeq(bytes, Len(write_value(input)) + 1, Len(bytes))

\* The buffer holds the header of the written input and not all the rest.
CutShort ==
    /\ Len(bytes) < Len(write_value(input))
    /\ bytes = SubSeq(write_value(input), 1, Len(bytes))

\* C21: a Sequence atom of declared length N is read as the sequence of the
\* N children that follow, and a Map atom as its N pairs, for every
\* N >= 0, whenever the children are wholly present, wherever the atom sits
\* in the buffer; when they are not all present the result is an error.
DeclaredLengthDecoding ==
    (value_read.done /\ input.k \in {"Sequence", "Mappings"}) =>
        /\ WhollyPresent =>
              /\ value_read.result.ok
              /\ value_read.result.value = input
              /\ value_read.result.rest = Following
        /\ CutShort => ~value_read.result.ok

\* UTF-8 over the payloads read: an ASCII byte stands alone, 195 leads a
\* two-byte char and 169 continues it; 255 is never valid.
RECURSIVE ValidPayload(_)
ValidPayload(bs) ==
    IF bs = <<>> THEN TRUE
    ELSE IF bs[1] <= 127 THEN ValidPayload(Tail(bs))
    ELSE /\ bs[1] = 195
         /\ Len(bs) >= 2
         /\ bs[2] = 169
         /\ ValidPayload(SubSeq(bs, 3, Len(bs)))

\* C22: a Bytes atom is read as a String exactly when its payload is valid
\* UTF-8 and as Bytes otherwise, the payload unchanged in both cases; a
\* Symbol atom is InvalidData.
BytesReclassification ==
    value_read.done =>
        /\ (input.k = "Bytes" /\ WhollyPresent) =>
              /\ value_read.result.ok
              /\ value_read.result.value.k
                    = (IF ValidPayload(input.v) THEN "String" ELSE "Bytes")
              /\ value_read.result.value.v = input.v
        /\ bytes \in SymbolAtoms =>
              /\ ~value_read.result.ok
              /\ value_read.result.error = "InvalidData"

\* A payload that is UTF-8 and not ASCII was read as a String, and a Symbol
\* atom is in the inputs.
NonAsciiString ==
    /\ value_read.done
    /\ input = ValueBytes(<<195, 169>>)
    /\ value_read.result.ok
    /\ value_read.result.value = ValueString(<<195, 169>>)
    /\ \E symbol \in SymbolAtoms : read_value(symbol).error = "InvalidData"

\* The kind of container an Enter change enters.
EnteredKind(change) ==
    IF change.change = "EnterSequence" THEN "Sequence" ELSE "Mappings"

\* The precondition the tables give for a change in a sequence context and
\* in a mapping context; FALSE for a change the context does not recognize.
Precondition(kind, values, change) ==
    IF change.change = "Replace"
    THEN change.index # None /\ change.index[1] < Len(values)
    ELSE IF change.change = "Remove" THEN change.index + change.length <= Len(values)
    ELSE IF change.change = "Truncate" THEN change.length <= Len(values)
    ELSE IF change.change = "Insert"
    THEN kind = "Sequence" /\ change.index <= Len(values)
    ELSE IF change.change = "InsertMapping"
    THEN kind = "Mappings" /\ change.index <= Len(values)
    ELSE IF change.change \in {"ReplaceMapping", "ReplaceKey"}
    THEN kind = "Mappings" /\ change.index < Len(values)
    ELSE FALSE

\* The element of the container at position j (from 1) after the change,
\* when every other element is left as it was.
ElementAfter(kind, values, change, j) ==
    IF change.change = "Replace"
    THEN IF j # change.index[1] + 1 THEN values[j]
         ELSE IF kind = "Sequence" THEN change.value
         ELSE <<values[j][1], change.value>>
    ELSE IF change.change = "ReplaceKey"
    THEN IF j # change.index + 1 THEN values[j] ELSE <<change.key, values[j][2]>>
    ELSE IF change.change = "ReplaceMapping"
    THEN IF j # change.index + 1 THEN values[j] ELSE <<change.key, change.value>>
    ELSE IF change.change = "Remove"
    THEN IF j <= change.index THEN values[j] ELSE values[j + change.length]
    ELSE IF change.change = "Truncate" THEN values[j]
    ELSE IF j <= change.index THEN values[j]
    ELSE IF j > change.index + 1 THEN values[j - 1]
    ELSE IF change.change = "Insert" THEN change.value
    ELSE <<change.key, change.value>>

\* The length of the container after the change.
LengthAfter(values, change) ==
    IF change.change = "Remove" THEN Len(values) - change.length
    ELSE IF change.change = "Truncate" THEN change.length
    ELSE IF change.change \in {"Insert", "InsertMapping"} THEN Len(values) + 1
    ELSE Len(values)

\* The tabulated effect of a change on a container.
Tabulated(kind, values, change) ==
    [j \in 1..LengthAfter(values, change) |-> ElementAfter(kind, values, change, j)]

\* A container of a kind.
ContainerOf(kind, values) ==
    IF kind = "Sequence" THEN ValueSequence(values) ELSE ValueMappings(values)

\* The child an Enter{Some(i), key} addresses in a container: the element
\* of a sequence, the key half or the value half of an entry of a mapping.
Addressed(kind, values, enter) ==
    IF kind = "Sequence" THEN values[enter.index[1] + 1]
    ELSE IF enter.key THEN values[enter.index[1] + 1][1]
    ELSE values[enter.index[1] + 1][2]

\* The Enter is recognized in the context and its target has its kind.
CanEnter(kind, values, enter) ==
    /\ enter.change \in {"EnterSequence", "EnterMap"}
    /\ enter.index # None
    /\ enter.index[1] < Len(values)
    /\ kind = "Sequence" => ~enter.key
    /\ Addressed(kind, values, enter).k = EnteredKind(enter)

\* The container with the addressed child replaced, all else unchanged.
WithAddressed(kind, values, enter, child) ==
    [j \in 1..Len(values) |->
        IF j # enter.index[1] + 1 THEN values[j]
        ELSE IF kind = "Sequence" THEN child
        ELSE IF enter.key THEN <<child, values[j][2]>>
        ELSE <<values[j][1], child>>]

\* The script enters the root.
EntersRoot ==
    /\ pc = "applied"
    /\ diff.changes[1].index = None
    /\ original.k = EnteredKind(diff.changes[1])

\* C23: when its precondition holds, a change has exactly the tabulated
\* effect on the container entered and leaves every other element as it
\* was, in the root (scripts of two changes) and in the key half or the
\* value half an Enter{Some(i), key} descends into (scripts of three).
ApplierEffects ==
    EntersRoot =>
        /\ (/\ Len(diff.changes) = 2
            /\ Precondition(original.k, original.v, diff.changes[2])) =>
              applied = ApplyOk(ContainerOf(original.k,
                            Tabulated(original.k, original.v, diff.changes[2])))
        /\ (/\ Len(diff.changes) = 3
            /\ CanEnter(original.k, original.v, diff.changes[2])
            /\ Precondition(EnteredKind(diff.changes[2]),
                            Addressed(original.k, original.v, diff.changes[2]).v,
                            diff.changes[3])) =>
              applied = ApplyOk(ContainerOf(original.k,
                  WithAddressed(original.k, original.v, diff.changes[2],
                      ContainerOf(EnteredKind(diff.changes[2]),
                          Tabulated(EnteredKind(diff.changes[2]),
                              Addressed(original.k, original.v, diff.changes[2]).v,
                              diff.changes[3])))))

\* A sequence was inserted into inside the key half of the first entry of
\* a mapping.
KeyHalfEntered ==
    /\ pc = "applied"
    /\ diff.changes = <<EnterMap(None, FALSE), EnterSequence(Some(0), TRUE),
                        Insert(1, ValueInteger(9))>>
    /\ applied.status = "Ok"
    /\ applied.value.v[1][1]
         = ValueSequence(<<ValueInteger(1), ValueInteger(9), ValueInteger(2)>>)
    /\ applied.value.v[1][2] = ValueSequence(<<ValueInteger(3)>>)

\* The diff of two root sequences, or of two root mappings, descended into
\* the root; the positions of the changes made in the root itself.
RootDiff ==
    /\ pc # "start"
    /\ ~diff.panic
    /\ diff.changes # <<>>
    /\ diff.changes[1].change \in {"EnterSequence", "EnterMap"}
RootLevel == {i \in 2..Len(diff.changes) : DepthBefore(diff.changes, i) = 1}

\* The updated element a change of the root carries: the element itself,
\* the entry, or its key or value half.
Carries(change, element) ==
    IF change.change = "Insert" THEN change.value = element
    ELSE IF change.change \in {"InsertMapping", "ReplaceMapping"}
    THEN <<change.key, change.value>> = element
    ELSE IF change.change = "ReplaceKey" THEN change.key = element[1]
    ELSE IF change.change = "Replace"
    THEN change.value = (IF updated.k = "Sequence" THEN element ELSE element[2])
    ELSE TRUE

\* The index a change of the root carries, or -1.
IndexOf(change) ==
    IF change.change \in {"Replace", "EnterSequence", "EnterMap"} THEN change.index[1]
    ELSE IF change.change \in {"Exit", "Truncate", "Remove"} THEN -1
    ELSE change.index

\* The original elements left when the changes of the root other than a
\* Truncate are made: those removed are gone, those inserted are added.
RemovedAt(i) ==
    IF i \in RootLevel /\ diff.changes[i].change = "Remove"
    THEN diff.changes[i].length ELSE 0
LengthBeforeTruncate ==
    Len(original.v)
        - SumSeq([i \in 1..Len(diff.changes) |-> RemovedAt(i)])
        + Cardinality({i \in RootLevel :
              diff.changes[i].change \in {"Insert", "InsertMapping"}})

\* C24: insert_index equals the number of updated elements consumed (a
\* change that carries an updated element carries the one at its index); a
\* Truncate is emitted exactly when original elements remain once the
\* updated elements are exhausted, it is the last change of its level, and
\* its length is the length of the updated container.
TruncateProtocol ==
    RootDiff =>
        /\ \A i \in RootLevel :
              IndexOf(diff.changes[i]) >= 0 =>
                  /\ IndexOf(diff.changes[i]) < Len(updated.v)
                  /\ Carries(diff.changes[i], updated.v[IndexOf(diff.changes[i]) + 1])
        /\ (\E i \in RootLevel : diff.changes[i].change = "Truncate")
              <=> LengthBeforeTruncate > Len(updated.v)
        /\ \A i \in RootLevel :
              diff.changes[i].change = "Truncate" =>
                  /\ diff.changes[i].length = Len(updated.v)
                  /\ i = Len(diff.changes)

\* A diff of the root that inserts and ends with a Truncate: the original
\* had elements left after the updated ones were consumed.
TruncateEmitted ==
    /\ RootDiff
    /\ Len(diff.changes) >= 3
    /\ diff.changes[Len(diff.changes)] = Truncate(Len(updated.v))
    /\ \E i \in RootLevel : diff.changes[i].change \in {"Insert", "InsertMapping"}

\* The indices and key flags create_diff is called with.
DiffIndices == {None, Some(0), Some(1)}

\* C25: the routine makes the same log_change calls (changes, indices and
\* estimates) over borrowed data as over owned data, whatever index and key
\* flag it is called with, so that the total of the Counter is the cost of
\* the script the collecting sink is then given.
MeasurementAgreesWithEmission ==
    pc # "start" =>
        /\ \A diff_index \in DiffIndices, is_key \in BOOLEAN :
              create_diff(diff_index, original, updated, "Borrowed", is_key)
                  = create_diff(diff_index, original, updated, "Owned", is_key)
        /\ ~RootReplaces(stats, estimated_bytes(updated)) =>
              /\ Counter(logged) = stats
              /\ ~diff.panic
              /\ diff.changes = StripTrailingExits(Collect(logged))

\* A script of two levels was emitted after a measurement of the same cost.
NestedDiffMeasured ==
    /\ pc # "start"
    /\ ~RootReplaces(stats, estimated_bytes(updated))
    /\ stats = Counter(logged)
    /\ Len(diff.changes) >= 3
    /\ \E i \in 2..Len(diff.changes) :
          /\ diff.changes[i].change \in {"EnterSequence", "EnterMap"}
          /\ i < Len(diff.changes)

\* A value and everything nested in it.
RECURSIVE Parts(_)
Parts(value) ==
    {value} \cup
    (IF value.k = "Sequence"
     THEN UNION {Parts(value.v[i]) : i \in 1..Len(value.v)}
     ELSE IF value.k = "Mappings"
     THEN UNION {Parts(value.v[i][1]) \cup Parts(value.v[i][2]) : i \in 1..Len(value.v)}
     ELSE {})

\* The log holds a call whose closure is unreachable!().
LogsUnreachable(log) == \E i \in 1..Len(log) : log[i].change = Unreachable
\* The log holds an expect("just iterated") that found the queue empty.
LogsExpectFailed(log) == \E i \in 1..Len(log) : log[i].change = ExpectFailed

\* C26: between_values never aborts.  Whatever pair of nested values a level
\* measures, the insert runs never find the queue empty, and a measurement
\* that reached the fallback arm is larger than the value, so that the
\* enclosing level replaces; the collecting sink evaluates no unreachable!()
\* closure.
BetweenValuesNeverAborts ==
    pc # "start" =>
        /\ ~diff.panic
        /\ ~Panics(logged)
        /\ \A o \in Parts(original), u \in Parts(updated) :
              \A cow \in {"Borrowed", "Owned"}, is_key \in BOOLEAN :
                  /\ ~LogsExpectFailed(create_diff(Some(0), o, u, cow, is_key))
                  /\ LogsUnreachable(create_diff(Some(0), o, u, "Borrowed", is_key))
                        => Counter(create_diff(Some(0), o, u, "Borrowed", is_key))
                               > estimated_bytes(u)

\* An element of another kind than the original one at its place was
\* replaced inside a diff that descended into the root: its measurement
\* reached the fallback arm, and the closure was not evaluated.
MismatchReplacedInside ==
    /\ RootDiff
    /\ \E i \in RootLevel :
          /\ diff.changes[i].change = "Replace"
          /\ original.k = "Sequence"
          /\ diff.changes[i].index[1] < Len(original.v)
          /\ original.v[diff.changes[i].index[1] + 1].k # diff.changes[i].value.k
          /\ LogsUnreachable(create_diff(diff.changes[i].index,
                 original.v[diff.changes[i].index[1] + 1],
                 diff.changes[i].value, "Borrowed", FALSE))

\* C27: applying between_values(a, b) to a meets no structural mismatch:
\* the applier, which stops at the first change it does not recognize
\* where it reads it or whose precondition fails (index out of range,
\* Remove or Truncate beyond the length, Enter of another kind), reads
\* the whole script.
ProducedScriptApplies ==
    pc \in {"applied", "encoded", "decoded"} =>
        /\ applied.status = "Ok"
        /\ applied.panic = ""

\* A produced script that descends below the root and changes a container
\* there was applied.
NestedScriptApplied ==
    /\ pc = "applied"
    /\ applied.status = "Ok"
    /\ \E i \in 2..(Len(diff.changes) - 1) :
          /\ diff.changes[i].change \in {"EnterSequence", "EnterMap"}
          /\ diff.changes[i + 1].change \in {"Insert", "Truncate", "Remove", "Replace"}

\* The containers a script has entered and not left before its change at
\* position i, the innermost last.
RECURSIVE ContextBefore(_, _)
ContextBefore(changes, i) ==
    IF i <= 1 THEN <<>>
    ELSE StackAfter(changes[i - 1], ContextBefore(changes, i - 1))

IsEnter(change) == change.change \in {"EnterSequence", "EnterMap"}

\* C28: a script of between_values is empty, or the single change
\* Replace{index: None}, or begins with an Enter{index: None, key: false};
\* no later change has the index None; no prefix holds more Exits than
\* Enters; and key: true is found only on an Enter read in a mapping.
WellFormedScript ==
    (pc # "start" /\ ~diff.panic) =>
        /\ \/ diff.changes = <<>>
           \/ /\ Len(diff.changes) = 1
              /\ diff.changes[1].change = "Replace"
              /\ diff.changes[1].index = None
           \/ /\ IsEnter(diff.changes[1])
              /\ diff.changes[1].index = None
              /\ ~diff.changes[1].key
        /\ \A i \in 2..Len(diff.changes) :
              (IsEnter(diff.changes[i]) \/ diff.changes[i].change = "Replace")
                  => diff.changes[i].index # None
        /\ \A i \in 1..(Len(diff.changes) + 1) : DepthBefore(diff.changes, i) >= 0
        /\ \A i \in 1..Len(diff.changes) :
              (IsEnter(diff.changes[i]) /\ diff.changes[i].key) =>
                  /\ ContextBefore(diff.changes, i) # <<>>
                  /\ ContextBefore(diff.changes, i)[Len(ContextBefore(diff.changes, i))]
                         = "Map"

\* A script that enters the key of an entry of the root mapping.
KeyEnteredInMapping ==
    /\ pc # "start"
    /\ ~diff.panic
    /\ Len(diff.changes) >= 3
    /\ diff.changes[1] = EnterMap(None, FALSE)
    /\ \E i \in 2..Len(diff.changes) :
          /\ IsEnter(diff.changes[i])
          /\ diff.changes[i].key
          /\ diff.changes[i].index # None

\* The virtual stack of the format: the steps from the root to the current
\* container, each the Enter that was taken.  The container a stack of
\* steps leads to, and the tree with that container replaced and every
\* part outside it as it was.
RECURSIVE ContainerAt(_, _)
ContainerAt(value, stack) ==
    IF stack = <<>> THEN value
    ELSE ContainerAt(Addressed(value.k, value.v, Head(stack)), Tail(stack))
RECURSIVE WithContainerAt(_, _, _)
WithContainerAt(value, stack, container) ==
    IF stack = <<>> THEN container
    ELSE ContainerOf(value.k,
             WithAddressed(value.k, value.v, Head(stack),
                 WithContainerAt(Addressed(value.k, value.v, Head(stack)),
                                 Tail(stack), container)))

\* The tree a script leaves when it is read against the virtual stack: an
\* Enter pushes the addressed child, an Exit pops, any other change has its
\* tabulated effect on the container on top, and the end of the script
\* closes every level.  `defined` is FALSE when a change is not recognized
\* where it is read, when its precondition fails or when an Exit finds the
\* stack empty.
RECURSIVE StackRun(_, _, _)
StackRun(value, changes, stack) ==
    IF changes = <<>> THEN [defined |-> TRUE, value |-> value]
    ELSE
    LET change == Head(changes)
        current == ContainerAt(value, stack)
    IN
    IF IsEnter(change)
    THEN IF CanEnter(current.k, current.v, change)
         THEN StackRun(value, Tail(changes), Append(stack, change))
         ELSE [defined |-> FALSE, value |-> value]
    ELSE IF change = Exit
    THEN IF stack # <<>>
         THEN StackRun(value, Tail(changes), SubSeq(stack, 1, Len(stack) - 1))
         ELSE [defined |-> FALSE, value |-> value]
    ELSE IF Precondition(current.k, current.v, change)
    THEN StackRun(WithContainerAt(value, stack,
                      ContainerOf(current.k, Tabulated(current.k, current.v, change))),
                  Tail(changes), stack)
    ELSE [defined |-> FALSE, value |-> value]

\* C29: the applier keeps the stack discipline of the format.  A script
\* that enters the root is applied as it reads against the virtual stack:
\* an Enter makes the addressed child current, the matching Exit makes the
\* enclosing container current again, the end of the stream closes every
\* open level, and a change mutates the current container alone.
StackDiscipline ==
    (/\ EntersRoot
     /\ ~diff.changes[1].key
     /\ StackRun(original, Tail(diff.changes), <<>>).defined) =>
        applied = ApplyOk(StackRun(original, Tail(diff.changes), <<>>).value)

\* A script that descends two levels, changes the innermost container,
\* leaves it, changes the enclosing one, leaves it and changes the root.
TwoLevelsLeft ==
    /\ EntersRoot
    /\ Len(diff.changes) = 8
    /\ IsEnter(diff.changes[2])
    /\ IsEnter(diff.changes[3])
    /\ diff.changes[5] = Exit
    /\ diff.changes[7] = Exit
    /\ StackRun(original, Tail(diff.changes), <<>>).defined
    /\ applied.status = "Ok"
    /\ applied.value # original

\* The charge the sequence arm makes for an index or length field, and the
\* charge made for an embedded value.
FieldCost(field) == estimate_usize_bytes(field)

\* The uniform cost of a change, the 1 of log_change apart: the charge of
\* every index and length field it carries and the estimate of every value
\* it embeds.  An Enter is charged as EnterSequence is, on
\* diff_index.unwrap_or(0); the root Replace carries no index.
UniformCost(change) ==
    IF change.change = "Exit" THEN 0
    ELSE IF IsEnter(change) THEN FieldCost(unwrap_or(change.index, 0))
    ELSE IF change.change = "Replace"
    THEN estimated_bytes(change.value)
             + (IF change.index = None THEN 0 ELSE FieldCost(change.index[1]))
    ELSE IF change.change = "ReplaceKey"
    THEN estimated_bytes(change.key) + FieldCost(change.index)
    ELSE IF change.change \in {"ReplaceMapping", "InsertMapping"}
    THEN estimated_bytes(change.key) + estimated_bytes(change.value)
             + FieldCost(change.index)
    ELSE IF change.change = "Insert"
    THEN estimated_bytes(change.value) + FieldCost(change.index)
    ELSE IF change.change = "Remove"
    THEN FieldCost(change.index) + FieldCost(change.length)
    ELSE IF change.change = "Truncate" THEN FieldCost(change.length)
    ELSE 0

\* C30: every change the differ logs is charged 1 plus the charge of each
\* index and length field it carries plus the estimate of each value it
\* embeds, in a mapping as in a sequence.
UniformChangeCost ==
    pc # "start" =>
        /\ \A i \in 1..Len(logged) :
              logged[i].estimated_bytes = UniformCost(logged[i].change)
        /\ Counter(logged)
              = Len(logged)
                  + SumSeq([i \in 1..Len(logged) |-> UniformCost(logged[i].change)])

====
